---------------------------- MODULE Spec2Model ----------------------------
(***************************************************************************)
(* dashcam_rs: segment-ring bookkeeping and trip ledger.                   *)
(*                                                                         *)
(* The persistent store (tables camera_state, trips, saved_trips), the     *)
(* ring counter operations of src/src/db/db.rs, the trip operations of     *)
(* src/src/db.rs, the DB worker of src/src/db_worker.rs and the            *)
(* format-location callback of the ring sink                               *)
(* (src/src/pipeline_sinks/ts_file_pipeline_sink.rs).                      *)
(*                                                                         *)
(* The specifications share the state:                                     *)
(*   SpecRing   the counter API called directly (as the tests do);         *)
(*   Spec       the running service: producers, channel, worker, restarts; *)
(*   SpecTrips  the trip ledger over an advancing ring;                    *)
(*   SpecSetup  setup run again on a store that holds state;               *)
(*   SpecEvict  eviction over a recording ring;                            *)
(*   SpecLedger the trip ledger over every counter operation;              *)
(*   SpecProducer the sinks writing rings of any size from a fresh store;  *)
(*   SpecActor  the DB worker with its senders, reply channels and storage *)
(*              errors (SpecActorFair: under a fair scheduler);            *)
(*   SpecPanic  SpecActor with a worker that may panic;                    *)
(*   SpecNaming the format-location callback with the paths it returns;    *)
(*   SpecRestart the service writing files, shut down with an empty        *)
(*              channel and started again;                                 *)
(*   SpecNonBlocking the producers next to a worker that may be slow, meet  *)
(*              storage errors or be gone;                                 *)
(*   SpecCleanup CamService::prep_dir_for_service on recording directories  *)
(*              of any content;                                            *)
(*   SpecLogic  the counter operations called with max_segments < 1;       *)
(*   SpecCounters increment and update_to on rings of a fixed size, from a *)
(*              fresh store;                                               *)
(*   SpecEquiv  insert_trip and finalize_open_trip next to new_trip;       *)
(*   SpecClose  new_trip and save_trip_and_start_new over a ring that      *)
(*              wraps and keeps advancing;                                 *)
(*   SpecLocal  the producers of both cameras, the worker and direct       *)
(*              counter calls interleaved;                                 *)
(*   SpecTx     the counter and trip transactions statement by statement,  *)
(*              any statement failing.                                     *)
(*                                                                         *)
(* i64 arithmetic is modelled on unbounded integers: every value stays     *)
(* below the bounds MaxAbs / MaxWritten, far from overflow.                *)
(***************************************************************************)
EXTENDS Integers, Sequences, FiniteSets, TLC

(***************************************************************************)
(* Bounds of the model.                                                    *)
(***************************************************************************)
\* largest ring size (max_segments) a configuration or a call may use
RingSize == 3
\* largest index handed to update_segment_counters / set_segment_index directly
MaxIndexInput == 3
\* cap on absolute_segments in SpecRing
MaxAbs == 3
\* cap on segment_generation in SpecRing
MaxGen == 1

\* format-location calls, all ring sinks together, in Spec
MaxWritten == 4
\* messages the channel holds while the producers run in Spec
MaxQueue == 2
\* rows of table trips in SpecTrips
MaxTrips == 3
\* rows of table trips in SpecLedger
MaxLedgerTrips == 2
\* holders of the Sender<DBMessage> (the service, the callbacks) in SpecActor
MaxHandles == 2
\* messages sent to the worker in SpecActor
MaxActorMsgs == 3
\* the absolute position a ring reaches in SpecClose
MaxTripAbs == 5
\* calls of mark_fully_evicted_trips in SpecEvict, one clock second apart
MaxClock == 2

\* cameras of the configuration (cameras.id)
Cameras == {1, 2}
\* the one ring sink (SinkConfig::DashcamTs) each camera is configured with
PrimarySink == 0
Bindings == Cameras \X {PrimarySink}

\* ring sizes a call or a configuration can carry (max_segments >= 1)
MaxSegChoices == 1 .. RingSize

\* Option<T>: None is the empty sequence, Some(v) a one-element sequence
NULL == << >>
Some(v) == << v >>
IsNull(o) == o = << >>
Val(o) == o[1]

VARIABLES
    cameras,        \* table cameras: the key of each row, the row id is its position
    camera_state,   \* table camera_state: binding -> counters row, for the rows that exist
    last,           \* the last completed store operation, with the row before and after
    cfg,            \* config: binding -> max_segments of its DashcamTs sink
    sink_index,     \* TsFilePipelineSink.segment_index: None until the sink is built
    queue,          \* the mpsc channel of DBMessage, oldest first
    written,        \* format-location calls made so far, all sinks together
    resized,        \* binding -> a restart made its max_segments smaller / larger
    files,          \* the recording directory, followed in SpecEvict: binding -> ring
                    \* slot -> the number of the segment file output_<slot>.ts holds
    now,            \* the wall clock, in seconds
    trips,          \* table trips as committed: row id -> row
    saved_trips,    \* table saved_trips as committed: the trip_id of each row
    tx,             \* the transaction of new_trip / save_trip_and_start_new in flight
    trip_last,      \* the last completed trip operation, with the tables before it
    handles,        \* live holders of the Sender<DBMessage> of the channel
    worker,         \* the DB worker thread: "running" in its loop, "exited", "panicked"
    reply,          \* binding -> the reply channel of the request its pipeline
                    \* builder has sent, followed in SpecActor
    dir_entries     \* the entries of CamService.recording_dir, followed in SpecCleanup

vars == << cameras, camera_state, last, cfg, sink_index, queue, written, resized,
           files, now, trips, saved_trips, tx, trip_last, handles, worker, reply,
           dir_entries >>
service_vars == << cfg, sink_index, queue, written, resized, files >>
trip_vars == << now, trips, saved_trips, tx, trip_last >>
actor_vars == << handles, worker, reply >>

(***************************************************************************)
(* Table camera_state                                                      *)
(***************************************************************************)
\* a first row that already counts one segment
FreshRowOne == [segment_index |-> 1, segment_generation |-> 0, absolute_segments |-> 1]

\* a row as inserted by ensure_cameras_initialized: VALUES (.., 0, 0, 0)
FreshRow == [segment_index |-> 0, segment_generation |-> 0, absolute_segments |-> 0]

\* the keys of the cameras a configuration may list
CameraKeys == {"cam1", "cam2"}

\* SELECT id FROM cameras WHERE key = ?1: None when no row has the key
get_camera_id_by_key(cams, camera_key) ==
    IF \E id \in 1 .. Len(cams) : cams[id] = camera_key
    THEN Some(CHOOSE id \in 1 .. Len(cams) : cams[id] = camera_key)
    ELSE NULL

\* INSERT INTO cameras ... ON CONFLICT(key) DO UPDATE: a new key gets the next id,
\* a known key keeps its row
upsert_camera(cams, camera_key) ==
    IF IsNull(get_camera_id_by_key(cams, camera_key))
    THEN Append(cams, camera_key)
    ELSE cams

\* INSERT OR REPLACE in place of ON CONFLICT DO NOTHING
insert_camera_state_replace(cs, b) ==
    [x \in DOMAIN cs \cup {b} |-> IF x = b THEN FreshRow ELSE cs[x]]

\* INSERT INTO camera_state ... VALUES (.., 0, 0, 0) ON CONFLICT(camera_id, sink_id) DO NOTHING
insert_camera_state(cs, b) ==
    IF b \in DOMAIN cs THEN cs
    ELSE [x \in DOMAIN cs \cup {b} |-> IF x = b THEN FreshRow ELSE cs[x]]

\* the inner loop of ensure_cameras_initialized over the DashcamTs sinks of a camera
RECURSIVE InsertSinkRows(_, _, _)
InsertSinkRows(cs, camera_id, sinks) ==
    IF sinks = {} THEN cs
    ELSE LET sink_id == CHOOSE x \in sinks : \A y \in sinks : x <= y
         IN  InsertSinkRows(insert_camera_state(cs, << camera_id, sink_id >>),
                            camera_id, sinks \ {sink_id})

\* the store after the loop over the cameras of the configuration
RECURSIVE ensure_cameras_initialized(_, _, _)
ensure_cameras_initialized(cams, cs, config) ==
    IF config = << >> THEN [cameras |-> cams, camera_state |-> cs]
    ELSE LET cam   == Head(config)
             cams1 == upsert_camera(cams, cam.key)
             id    == Val(get_camera_id_by_key(cams1, cam.key))
         IN  ensure_cameras_initialized(cams1, InsertSinkRows(cs, id, cam.sinks),
                                        Tail(config))

\* a camera of the configuration: its key and the sink ids of its DashcamTs sinks
CameraConfig(key, sinks) == [key |-> key, sinks |-> sinks]

\* the configuration the service and the trip ledger run with: both cameras,
\* each with its ring sink
FullConfig == << CameraConfig("cam1", {PrimarySink}), CameraConfig("cam2", {PrimarySink}) >>

\* setup_with_paths_and_schema on a store that does not exist yet
FreshStore(config) == ensure_cameras_initialized(<< >>, << >>, config)

\* SQLite's % on integers: the remainder takes the sign of the dividend
SqlRem(a, b) ==
    LET bb == IF b < 0 THEN 0 - b ELSE b IN
    IF a >= 0 THEN a % bb ELSE 0 - ((0 - a) % bb)

\* update_segment_counters with the ring distance taken as a plain difference
update_segment_counters_nowrap(row, new_segment_index, max_segments) ==
    IF new_segment_index = row.segment_index
    THEN row
    ELSE [segment_index      |-> new_segment_index,
          segment_generation |-> IF new_segment_index < row.segment_index
                                 THEN row.segment_generation + 1
                                 ELSE row.segment_generation,
          absolute_segments  |-> row.absolute_segments
                                 + (new_segment_index - row.segment_index)]

\* update_segment_counters without the early return, an equal index counted as a wrap
update_segment_counters_eqwrap(row, new_segment_index, max_segments) ==
    LET wrapped == new_segment_index <= row.segment_index
        diff    == IF wrapped THEN (max_segments - row.segment_index) + new_segment_index
                              ELSE new_segment_index - row.segment_index
    IN  [segment_index      |-> new_segment_index,
         segment_generation |-> IF wrapped THEN row.segment_generation + 1
                                           ELSE row.segment_generation,
         absolute_segments  |-> row.absolute_segments + diff]

\* DashcamDb::update_segment_counters: the row committed for a row `row`
update_segment_counters(row, new_segment_index, max_segments) ==
    LET cur_idx == row.segment_index
        cur_gen == row.segment_generation
        cur_abs == row.absolute_segments
        max     == max_segments
        wrapped == new_segment_index < cur_idx
        diff    == IF wrapped THEN (max - cur_idx) + new_segment_index
                              ELSE new_segment_index - cur_idx
    IN  IF new_segment_index = cur_idx
        THEN row
        ELSE [segment_index      |-> new_segment_index,
              segment_generation |-> IF wrapped THEN cur_gen + 1 ELSE cur_gen,
              absolute_segments  |-> cur_abs + diff]

\* increment_segment_index that forgets the generation on a wrap
increment_segment_index_nogen(row, max_segments) ==
    LET next_idx == IF row.segment_index + 1 >= max_segments THEN 0
                    ELSE row.segment_index + 1
    IN  [row |-> [segment_index      |-> next_idx,
                  segment_generation |-> row.segment_generation,
                  absolute_segments  |-> row.absolute_segments + 1],
         ret |-> next_idx]

\* DashcamDb::increment_segment_index: the row committed and the value returned
increment_segment_index(row, max_segments) ==
    LET cur_idx == row.segment_index
        cur_gen == row.segment_generation
        cur_abs == row.absolute_segments
        wrapped == cur_idx + 1 >= max_segments
        next_idx == IF wrapped THEN 0 ELSE cur_idx + 1
        next_gen == IF wrapped THEN cur_gen + 1 ELSE cur_gen
    IN  [row |-> [segment_index      |-> next_idx,
                  segment_generation |-> next_gen,
                  absolute_segments  |-> cur_abs + 1],
         ret |-> next_idx]

\* clamp_segment_index that saturates at the last slot instead of reducing modulo
clamp_segment_index_saturate(row, max_segments) ==
    [row EXCEPT !.segment_index =
        IF row.segment_index >= max_segments THEN max_segments - 1 ELSE row.segment_index]

\* clamp_segment_index that subtracts the ring size once
clamp_segment_index_once(row, max_segments) ==
    [row EXCEPT !.segment_index =
        IF row.segment_index >= max_segments THEN row.segment_index - max_segments
        ELSE row.segment_index]

\* DashcamDb::clamp_segment_index: SET segment_index = segment_index % ?1
clamp_segment_index(row, max_segments) ==
    [row EXCEPT !.segment_index = SqlRem(row.segment_index, max_segments)]

\* DashcamDb::set_segment_index
set_segment_index(row, value) ==
    [row EXCEPT !.segment_index = value]

NoOp == [op |-> "none", b |-> << 0, 0 >>, max |-> 0, arg |-> 0,
         pre |-> FreshRow, post |-> FreshRow, ret |-> 0, rep |-> FALSE]

\* the record of a completed operation; rep: it repeats the operation before it
Done(op, b, max, arg, pre, post, ret) ==
    [op |-> op, b |-> b, max |-> max, arg |-> arg, pre |-> pre, post |-> post,
     ret |-> ret,
     rep |-> (last.op = op /\ last.b = b /\ last.max = max /\ last.arg = arg)]

(***************************************************************************)
(* Tables trips and saved_trips (src/src/db.rs, one ring per camera)       *)
(***************************************************************************)
\* the ring size the trip ledger is compiled with
SEGMENTS_TO_KEEP == RingSize

\* a row of trips as the INSERT statements write it: open, not evicted
Trip(camera_id, start_segment, start_gen) ==
    [camera_id |-> camera_id, start_segment |-> start_segment,
     final_segment |-> NULL, start_gen |-> start_gen, end_gen |-> NULL,
     end_time_utc |-> NULL, end_clock_source |-> NULL,
     fully_evicted |-> FALSE, evicted_at_utc |-> NULL]

\* ids of the rows WHERE final_segment IS NULL AND camera_id = ?
OpenTripIds(ts, camera_id) ==
    { id \in 1 .. Len(ts) : ts[id].camera_id = camera_id /\ IsNull(ts[id].final_segment) }

\* the newest open trip of any camera: the query without AND camera_id = ?1
fetch_open_trip_any_camera(ts, camera_id) ==
    IF \A id \in 1 .. Len(ts) : ~IsNull(ts[id].final_segment) THEN 0
    ELSE CHOOSE id \in 1 .. Len(ts) :
             /\ IsNull(ts[id].final_segment)
             /\ \A other \in 1 .. Len(ts) :
                    IsNull(ts[other].final_segment) => other <= id

\* ... ORDER BY id DESC LIMIT 1, as an id; 0 when there is no such row
fetch_open_trip(ts, camera_id) ==
    IF OpenTripIds(ts, camera_id) = {} THEN 0
    ELSE CHOOSE id \in OpenTripIds(ts, camera_id) :
             \A other \in OpenTripIds(ts, camera_id) : other <= id

\* the UPDATE without end_clock_source = ?
CloseTrip_no_clock_source(t, end_seg, cur_gen) ==
    [t EXCEPT !.final_segment = Some(end_seg), !.end_time_utc = Some(now),
              !.end_gen = Some(cur_gen)]

\* UPDATE trips SET final_segment = ?, end_time_utc = ?, end_clock_source = ?,
\* end_gen = ? of one row, with Self::now() and "boot"
CloseTrip(t, end_seg, cur_gen) ==
    [t EXCEPT !.final_segment = Some(end_seg), !.end_time_utc = Some(now),
              !.end_clock_source = Some("boot"), !.end_gen = Some(cur_gen)]

\* finalize_open_trip: the UPDATE ... WHERE final_segment IS NULL AND camera_id = ?
finalize_open_trip(ts, camera_id, end_segment_inclusive, cur_gen) ==
    [id \in 1 .. Len(ts) |->
        IF id \in { x \in 1 .. Len(ts) :
                      ts[x].camera_id = camera_id /\ IsNull(ts[x].final_segment) }
        THEN CloseTrip(ts[id], end_segment_inclusive, cur_gen)
        ELSE ts[id]]

insert_trip(ts, camera_id, start_segment, start_gen) ==
    Append(ts, Trip(camera_id, start_segment, start_gen))

\* new_trip / save_trip_and_start_new: does the transaction close the open trip
ClosesOpenTrip(ts, open_id, current) ==
    open_id # 0 /\ current - 1 >= ts[open_id].start_segment

\* the UPDATE with final_segment = current
close_open_trip_at_current(ts, open_id, current, cur_gen) ==
    IF ClosesOpenTrip(ts, open_id, current)
    THEN [ts EXCEPT ![open_id] = CloseTrip(ts[open_id], current, cur_gen)]
    ELSE ts

\* the conditional UPDATE of new_trip and save_trip_and_start_new
close_open_trip(ts, open_id, current, cur_gen) ==
    IF ClosesOpenTrip(ts, open_id, current)
    THEN [ts EXCEPT ![open_id] = CloseTrip(ts[open_id], current - 1, cur_gen)]
    ELSE ts

\* the INSERT INTO saved_trips of save_trip_and_start_new
save_closed_trip(saved, op, ts, open_id, current, saved_dir) ==
    IF op = "save_trip_and_start_new" /\ ClosesOpenTrip(ts, open_id, current)
    THEN Append(saved, [trip_id |-> open_id, saved_dir |-> saved_dir])
    ELSE saved

Max(a, b) == IF a >= b THEN a ELSE b

\* the earliest index taken one segment too late
abs_earliest_next(abs_latest) == Max(abs_latest + 1 - (SEGMENTS_TO_KEEP - 1), 0)

\* earliest absolute index that still exists on disk, as the code computes it
abs_earliest(abs_latest) == Max(abs_latest - (SEGMENTS_TO_KEEP - 1), 0)

\* COALESCE(end_gen, start_gen)
CoalesceGen(t) == IF IsNull(t.end_gen) THEN t.start_gen ELSE Val(t.end_gen)

\* the WHERE clause of the UPDATE of mark_fully_evicted_trips
EvictionWhere(t, camera_id, earliest) ==
    /\ ~t.fully_evicted
    /\ t.camera_id = camera_id
    /\ ~IsNull(t.final_segment)
    /\ CoalesceGen(t) * SEGMENTS_TO_KEEP + Val(t.final_segment) < earliest

\* the UPDATE without AND camera_id = ?3
mark_fully_evicted_trips_any_camera(ts, camera_id, abs_latest, t_now) ==
    LET hit == { id \in 1 .. Len(ts) :
                   \E c \in {ts[id].camera_id} :
                       EvictionWhere(ts[id], c, abs_earliest(abs_latest)) }
    IN  [trips |-> [id \in 1 .. Len(ts) |->
                       IF id \in hit
                       THEN [ts[id] EXCEPT !.fully_evicted = TRUE,
                                           !.evicted_at_utc = Some(t_now)]
                       ELSE ts[id]],
         updated |-> Cardinality(hit)]

\* the UPDATE without WHERE fully_evicted = 0
mark_fully_evicted_trips_restamp(ts, camera_id, abs_latest, t_now) ==
    LET hit == { id \in 1 .. Len(ts) :
                   EvictionWhere([ts[id] EXCEPT !.fully_evicted = FALSE], camera_id,
                                 abs_earliest(abs_latest)) }
    IN  [trips |-> [id \in 1 .. Len(ts) |->
                       IF id \in hit
                       THEN [ts[id] EXCEPT !.fully_evicted = TRUE,
                                           !.evicted_at_utc = Some(t_now)]
                       ELSE ts[id]],
         updated |-> Cardinality(hit)]

\* mark_fully_evicted_trips: the table after the UPDATE and the number of rows updated
mark_fully_evicted_trips(ts, camera_id, abs_latest, t_now) ==
    LET hit == { id \in 1 .. Len(ts) :
                   EvictionWhere(ts[id], camera_id, abs_earliest(abs_latest)) }
    IN  [trips |-> [id \in 1 .. Len(ts) |->
                       IF id \in hit
                       THEN [ts[id] EXCEPT !.fully_evicted = TRUE,
                                           !.evicted_at_utc = Some(t_now)]
                       ELSE ts[id]],
         updated |-> Cardinality(hit)]

\* the check with abs_end <= abs_earliest
is_trip_fully_evicted_inclusive(ts, trip_id, abs_latest) ==
    LET t == ts[trip_id] IN
    IF t.fully_evicted THEN TRUE
    ELSE IF IsNull(t.final_segment) THEN FALSE
    ELSE CoalesceGen(t) * SEGMENTS_TO_KEEP + Val(t.final_segment)
            <= abs_earliest(abs_latest)

\* is_trip_fully_evicted for a trip that exists; abs_latest is absolute_segments
\* of the camera_state row joined to the trip
is_trip_fully_evicted(ts, trip_id, abs_latest) ==
    LET t == ts[trip_id]
        fully_evicted == t.fully_evicted
        final_seg_opt == t.final_segment
        end_gen_or_start == CoalesceGen(t)
    IN  IF fully_evicted THEN TRUE
        ELSE IF IsNull(final_seg_opt) THEN FALSE
        ELSE LET abs_end == end_gen_or_start * SEGMENTS_TO_KEEP + Val(final_seg_opt)
             IN  abs_end < abs_earliest(abs_latest)

\* list_active_trips: the ids of the rows WHERE fully_evicted = 0 AND camera_id = ?
\* ORDER BY id DESC
RECURSIVE ActiveBelow(_, _, _)
ActiveBelow(ts, camera_id, id) ==
    IF id = 0 THEN << >>
    ELSE (IF ~ts[id].fully_evicted /\ ts[id].camera_id = camera_id
          THEN << id >> ELSE << >>)
         \o ActiveBelow(ts, camera_id, id - 1)

list_active_trips(ts, camera_id) == ActiveBelow(ts, camera_id, Len(ts))

NoTx == [pc |-> "idle"]
NoTripOp == [op |-> "none", camera_id |-> 0, outcome |-> "none", open_id |-> 0,
             new_id |-> 0, current |-> 0, cur_gen |-> 0, saved_dir |-> "",
             ret |-> NULL, before |-> << >>, before_saved |-> << >>]

\* a recording directory nobody has written to
NoLiveView == dir_entries = { }

\* a reply channel nobody has created yet
NoReply == [state |-> "idle", of |-> "none", val |-> NULL]

\* the worker runs, the service holds the Sender, no request is under way
NoActor ==
    /\ handles = 1
    /\ worker = "running"
    /\ reply = [b \in Bindings |-> NoReply]

\* the trip tables of a store that has just been created
NoTrips ==
    /\ trips = << >>
    /\ saved_trips = << >>
    /\ tx = NoTx
    /\ trip_last = NoTripOp
    /\ now = 0

(***************************************************************************)
(* SpecRing: the counter API called directly                               *)
(***************************************************************************)
NotResized == [smaller |-> FALSE, larger |-> FALSE]

\* the numbers of the segment files of a binding that exist
FilesOnDisk(fs, b) == { Val(fs[b][slot]) : slot \in { x \in DOMAIN fs[b] : ~IsNull(fs[b][x]) } }

\* segment files are numbered from 0 in the order the sink starts them
NextFileNumber(fs, b) ==
    IF FilesOnDisk(fs, b) = {} THEN 0
    ELSE 1 + CHOOSE n \in FilesOnDisk(fs, b) : \A other \in FilesOnDisk(fs, b) : other <= n

\* an empty recording directory
NoFiles == [b \in Bindings |-> [slot \in 0 .. RingSize - 1 |-> NULL]]

\* no service runs: the store alone, as the tests open it
NoService ==
    /\ cfg = [b \in Bindings |-> RingSize]
    /\ sink_index = [b \in Bindings |-> NULL]
    /\ queue = << >>
    /\ written = 0
    /\ resized = [b \in Bindings |-> NotResized]
    /\ files = NoFiles

InitRing ==
    /\ cameras = FreshStore(FullConfig).cameras
    /\ camera_state = FreshStore(FullConfig).camera_state
    /\ last = NoOp
    /\ NoService
    /\ NoTrips
    /\ NoLiveView
    /\ NoActor

RingIncrement(b, m) ==
    LET r == increment_segment_index(camera_state[b], m) IN
    /\ r.row.absolute_segments <= MaxAbs
    /\ r.row.segment_generation <= MaxGen
    /\ camera_state' = [camera_state EXCEPT ![b] = r.row]
    /\ last' = Done("increment", b, m, 0, camera_state[b], r.row, r.ret)
    /\ UNCHANGED << cameras, service_vars, trip_vars, actor_vars, dir_entries >>

RingUpdateTo(b, n, m) ==
    LET r == update_segment_counters(camera_state[b], n, m) IN
    /\ r.absolute_segments <= MaxAbs
    /\ r.absolute_segments >= 0
    /\ r.segment_generation <= MaxGen
    /\ camera_state' = [camera_state EXCEPT ![b] = r]
    /\ last' = Done("update_to", b, m, n, camera_state[b], r, 0)
    /\ UNCHANGED << cameras, service_vars, trip_vars, actor_vars, dir_entries >>

RingClamp(b, m) ==
    LET r == clamp_segment_index(camera_state[b], m) IN
    /\ camera_state' = [camera_state EXCEPT ![b] = r]
    /\ last' = Done("clamp", b, m, 0, camera_state[b], r, 0)
    /\ UNCHANGED << cameras, service_vars, trip_vars, actor_vars, dir_entries >>

RingSetIndex(b, v) ==
    LET r == set_segment_index(camera_state[b], v) IN
    /\ camera_state' = [camera_state EXCEPT ![b] = r]
    /\ last' = Done("set_index", b, 0, v, camera_state[b], r, 0)
    /\ UNCHANGED << cameras, service_vars, trip_vars, actor_vars, dir_entries >>

NextRing ==
    \/ \E b \in Bindings, m \in MaxSegChoices : RingIncrement(b, m)
    \/ \E b \in Bindings, m \in MaxSegChoices, n \in 0 .. MaxIndexInput : RingUpdateTo(b, n, m)
    \/ \E b \in Bindings, m \in MaxSegChoices : RingClamp(b, m)
    \/ \E b \in Bindings, v \in 0 .. MaxIndexInput : RingSetIndex(b, v)

SpecRing == InitRing /\ [][NextRing]_vars

(***************************************************************************)
(* SpecLogic: the counter operations of SpecRing, called with a            *)
(*   max_segments below 1 as well.                                         *)
(***************************************************************************)
\* ring sizes that violate max_segments >= 1
BadMaxSegments == {0 - 1, 0}
\* ring sizes for which segment_index % ?1 has a value in SQLite
BadClampSizes == BadMaxSegments \ {0}

NextLogic ==
    \/ \E b \in Bindings : RingIncrement(b, RingSize)
    \/ \E b \in Bindings, m \in BadMaxSegments : RingIncrement(b, m)
    \/ \E b \in Bindings, m \in BadMaxSegments, n \in 0 .. MaxIndexInput :
          RingUpdateTo(b, n, m)
    \/ \E b \in Bindings, m \in BadClampSizes : RingClamp(b, m)

SpecLogic == InitRing /\ [][NextLogic]_vars

(***************************************************************************)
(* Spec: the running service                                               *)
(*   producers (format-location callbacks) -> channel -> DB worker,        *)
(*   and restarts of the process with a possibly edited configuration.     *)
(***************************************************************************)
Msg(type, b, segment_index, max_segments) ==
    [type |-> type, b |-> b, segment_index |-> segment_index,
     max_segments |-> max_segments]

\* next_index with the wrap test off by one
next_index_late(current_index, max_segments) ==
    IF current_index + 1 > max_segments THEN 0 ELSE current_index + 1

\* the index the format-location callback stores and sends after naming a file
next_index(current_index, max_segments) ==
    IF current_index + 1 >= max_segments THEN 0 ELSE current_index + 1

\* the callback connected to "format-location" in setup_sink
format_location(b) ==
    LET current_index == Val(sink_index[b])
        next == next_index(current_index, cfg[b])
    IN  /\ sink_index' = [sink_index EXCEPT ![b] = Some(next)]
        /\ queue' = Append(queue, Msg("SegmentUpdate", b, next, cfg[b]))

\* the pipelines run once every sink of the configuration has been built
PipelinesRunning == \A b \in Bindings : ~IsNull(sink_index[b])

FormatLocation(b) ==
    /\ PipelinesRunning
    /\ written < MaxWritten
    /\ Len(queue) < MaxQueue
    /\ format_location(b)
    /\ written' = written + 1
    /\ UNCHANGED << cameras, camera_state, last, cfg, resized, files, trip_vars, actor_vars, dir_entries >>

\* what building the pipelines of one camera sends, in order:
\* the camera id lookup, the startup clamp of its ring sink, the seed of the sink
RECURSIVE StartupMessages(_, _)
StartupMessages(cams, c) ==
    IF cams = {} THEN << >>
    ELSE LET cam == CHOOSE x \in cams : \A y \in cams : x <= y
             b   == << cam, PrimarySink >>
         IN  << Msg("GetCameraIdByKey", b, 0, 0),
                Msg("ClampSegmentIndex", b, 0, c[b]),
                Msg("GetSegmentIndex", b, 0, 0) >>
             \o StartupMessages(cams \ {cam}, c)

\* a receive that takes the newest message of the channel
recv_newest(q) == [msg |-> q[Len(q)], rest |-> SubSeq(q, 1, Len(q) - 1)]

\* dbworker.recvr.recv() on a channel that holds a message: the oldest one
recv(q) == [msg |-> Head(q), rest |-> Tail(q)]

\* a SegmentUpdate whose UPDATE has no WHERE clause: every row takes it
HandleSegmentUpdate_all_rows(m) ==
    /\ camera_state' = [b \in DOMAIN camera_state |->
                           update_segment_counters(camera_state[b], m.segment_index,
                                                   m.max_segments)]
    /\ last' = Done("update_to", m.b, m.max_segments, m.segment_index,
                    camera_state[m.b],
                    update_segment_counters(camera_state[m.b], m.segment_index,
                                            m.max_segments), 0)
    /\ UNCHANGED sink_index

\* start_db_worker, one iteration of the receive loop
HandleSegmentUpdate(m) ==
    LET r == update_segment_counters(camera_state[m.b], m.segment_index, m.max_segments) IN
    /\ camera_state' = [camera_state EXCEPT ![m.b] = r]
    /\ last' = Done("update_to", m.b, m.max_segments, m.segment_index,
                    camera_state[m.b], r, 0)
    /\ UNCHANGED sink_index

\* a sink that starts every run at slot 0
HandleGetSegmentIndex_from_zero(m) ==
    /\ sink_index' = [sink_index EXCEPT ![m.b] = Some(0)]
    /\ last' = Done("get_index", m.b, 0, 0, camera_state[m.b], camera_state[m.b], 0)
    /\ UNCHANGED camera_state

\* GetSegmentIndex: the reply seeds the sink that TsFilePipelineSink::new builds
HandleGetSegmentIndex(m) ==
    /\ sink_index' = [sink_index EXCEPT ![m.b] = Some(camera_state[m.b].segment_index)]
    /\ last' = Done("get_index", m.b, 0, 0, camera_state[m.b], camera_state[m.b],
                    camera_state[m.b].segment_index)
    /\ UNCHANGED camera_state

HandleClampSegmentIndex(m) ==
    LET r == clamp_segment_index(camera_state[m.b], m.max_segments) IN
    /\ camera_state' = [camera_state EXCEPT ![m.b] = r]
    /\ last' = Done("clamp", m.b, m.max_segments, 0, camera_state[m.b], r, 0)
    /\ UNCHANGED sink_index

HandleGetCameraIdByKey(m) ==
    /\ last' = Done("get_camera_id", m.b, 0, 0, camera_state[m.b], camera_state[m.b],
                    get_camera_id_by_key(cameras, FullConfig[m.b[1]].key))
    /\ UNCHANGED << camera_state, sink_index >>

WorkerStep ==
    /\ queue # << >>
    /\ LET m == recv(queue).msg IN
          \/ m.type = "SegmentUpdate" /\ HandleSegmentUpdate(m)
          \/ m.type = "GetSegmentIndex" /\ HandleGetSegmentIndex(m)
          \/ m.type = "ClampSegmentIndex" /\ HandleClampSegmentIndex(m)
          \/ m.type = "GetCameraIdByKey" /\ HandleGetCameraIdByKey(m)
    /\ queue' = recv(queue).rest
    /\ UNCHANGED << cameras, cfg, written, resized, files, trip_vars, actor_vars, dir_entries >>

\* the process ends (the channel and the sinks go with it) and starts again
\* under configuration c: setup keeps the rows, the pipelines are rebuilt
Restart(c) ==
    /\ cfg' = c
    /\ resized' = [b \in Bindings |->
                       [smaller |-> resized[b].smaller \/ c[b] < cfg[b],
                        larger  |-> resized[b].larger \/ c[b] > cfg[b]]]
    /\ sink_index' = [b \in Bindings |-> NULL]
    /\ queue' = StartupMessages(Cameras, c)
    /\ last' = [NoOp EXCEPT !.op = "restart"]
    /\ cameras' = ensure_cameras_initialized(cameras, camera_state, FullConfig).cameras
    /\ camera_state' =
           ensure_cameras_initialized(cameras, camera_state, FullConfig).camera_state
    /\ UNCHANGED << written, files, trip_vars, actor_vars, dir_entries >>

Init ==
    /\ cameras = FreshStore(FullConfig).cameras
    /\ camera_state = FreshStore(FullConfig).camera_state
    /\ last = NoOp
    /\ cfg \in [Bindings -> MaxSegChoices]
    /\ sink_index = [b \in Bindings |-> NULL]
    /\ queue = StartupMessages(Cameras, cfg)
    /\ written = 0
    /\ resized = [b \in Bindings |-> NotResized]
    /\ files = NoFiles
    /\ NoTrips
    /\ NoLiveView
    /\ NoActor

Next ==
    \/ \E b \in Bindings : FormatLocation(b)
    \/ WorkerStep
    \/ \E c \in [Bindings -> MaxSegChoices] : Restart(c)

Spec == Init /\ [][Next]_vars

(***************************************************************************)
(* SpecTrips: the trip ledger of src/src/db.rs over an advancing ring      *)
(*   new_trip and save_trip_and_start_new run statement by statement       *)
(*   inside their transaction; other connections see the committed tables. *)
(***************************************************************************)
InitTrips ==
    /\ cameras = FreshStore(FullConfig).cameras
    /\ camera_state = FreshStore(FullConfig).camera_state
    /\ last = NoOp
    /\ NoService
    /\ NoTrips
    /\ NoLiveView
    /\ NoActor

\* segments written so far, all rings together
RECURSIVE TotalAbsolute(_)
TotalAbsolute(bs) ==
    IF bs = {} THEN 0
    ELSE LET b == CHOOSE x \in bs : TRUE
         IN  camera_state[b].absolute_segments + TotalAbsolute(bs \ {b})

\* the ring of the camera, its sink has written one more file
TripsIncrement(c) ==
    LET b == << c, PrimarySink >>
        r == increment_segment_index(camera_state[b], SEGMENTS_TO_KEEP)
    IN  /\ tx.pc = "idle"
        /\ TotalAbsolute(Bindings) < MaxAbs
        /\ camera_state' = [camera_state EXCEPT ![b] = r.row]
        /\ last' = Done("increment", b, SEGMENTS_TO_KEEP, 0, camera_state[b], r.row, r.ret)
        /\ UNCHANGED << cameras, service_vars, trip_vars, actor_vars, dir_entries >>

\* directories a caller passes to save_trip_and_start_new
SavedDirs == {"saved/1", "saved/2"}

\* Ok(Trip { .. }) of new_trip, Ok((new_trip, closed_id, closed_start, closed_end))
\* of save_trip_and_start_new; t is the transaction, with what it read
trip_return(t, new_id) ==
    LET new_trip == [id |-> new_id, row |-> Trip(t.camera_id, t.current, t.cur_gen)] IN
    IF t.op = "new_trip" THEN [new_trip |-> new_trip]
    ELSE [new_trip     |-> new_trip,
          closed_id    |-> t.open_id,
          closed_start |-> IF t.open_id = 0 THEN t.current
                           ELSE t.before[t.open_id].start_segment,
          closed_end   |-> t.current - 1]

\* the record of a completed trip operation: the open trip it found (0: none),
\* the row it inserted (0: none), what it read and returned, and the tables as
\* they were before it
TripDone(t, outcome, new_id) ==
    [op |-> t.op, camera_id |-> t.camera_id, outcome |-> outcome,
     open_id |-> t.open_id, new_id |-> new_id,
     current |-> t.current, cur_gen |-> t.cur_gen, saved_dir |-> t.saved_dir,
     ret |-> IF outcome = "committed" THEN Some(trip_return(t, new_id)) ELSE NULL,
     before |-> trips, before_saved |-> saved_trips]

\* unchecked_transaction and the three SELECTs: current, cur_gen, the open trip
TxBegin(op, c, saved_dir) ==
    /\ tx.pc = "idle"
    /\ Len(trips) < MaxTrips
    /\ tx' = [pc |-> "read", op |-> op, camera_id |-> c, saved_dir |-> saved_dir,
              current |-> camera_state[<< c, PrimarySink >>].segment_index,
              cur_gen |-> camera_state[<< c, PrimarySink >>].segment_generation,
              open_id |-> fetch_open_trip(trips, c),
              before |-> trips, before_saved |-> saved_trips,
              work |-> trips, work_saved |-> saved_trips]
    /\ UNCHANGED << cameras, camera_state, last, service_vars, now, trips, saved_trips, trip_last, actor_vars, dir_entries >>

\* the UPDATE of the open trip (and the INSERT INTO saved_trips), if end_seg >= open_start
TxClose ==
    /\ tx.pc = "read"
    /\ tx' = [tx EXCEPT !.pc = "closed",
                        !.work = close_open_trip(tx.work, tx.open_id, tx.current, tx.cur_gen),
                        !.work_saved = save_closed_trip(tx.work_saved, tx.op, tx.work,
                                                        tx.open_id, tx.current,
                                                        tx.saved_dir)]
    /\ UNCHANGED << cameras, camera_state, last, service_vars, now, trips, saved_trips, trip_last, actor_vars, dir_entries >>

\* the INSERT INTO trips of the new open trip
TxInsert ==
    /\ tx.pc = "closed"
    /\ tx' = [tx EXCEPT !.pc = "inserted",
                        !.work = insert_trip(tx.work, tx.camera_id, tx.current, tx.cur_gen)]
    /\ UNCHANGED << cameras, camera_state, last, service_vars, now, trips, saved_trips, trip_last, actor_vars, dir_entries >>

\* tx.commit()
TxCommit ==
    /\ tx.pc = "inserted"
    /\ trips' = tx.work
    /\ saved_trips' = tx.work_saved
    /\ trip_last' = TripDone(tx, "committed", Len(tx.work))
    /\ tx' = NoTx
    /\ UNCHANGED << cameras, camera_state, last, service_vars, now, actor_vars, dir_entries >>

\* a statement or the commit returns Err: `?` drops the transaction, which rolls back
TxFail ==
    /\ tx.pc # "idle"
    /\ trip_last' = TripDone(tx, "rolled_back", 0)
    /\ tx' = NoTx
    /\ UNCHANGED << cameras, camera_state, last, service_vars, now, trips, saved_trips, actor_vars, dir_entries >>

NextTrips ==
    \/ \E c \in Cameras : TripsIncrement(c)
    \/ \E c \in Cameras : TxBegin("new_trip", c, "")
    \/ \E c \in Cameras, dir \in SavedDirs : TxBegin("save_trip_and_start_new", c, dir)
    \/ TxClose
    \/ TxInsert
    \/ TxCommit
    \/ TxFail

SpecTrips == InitTrips /\ [][NextTrips]_vars

(***************************************************************************)
(* SpecSetup: setup run again and again on the same store, under           *)
(*   configurations that list other cameras, with the rings advancing      *)
(*   between the runs.                                                     *)
(***************************************************************************)
\* the DashcamTs sinks a camera of the configuration may have
SinkChoices == { {}, {PrimarySink} }

\* the configurations: no camera, one camera, or both in either order
Configs ==
    { << >> }
    \cup { << CameraConfig(k, ss) >> : k \in CameraKeys, ss \in SinkChoices }
    \cup { c \in { << CameraConfig(k1, s1), CameraConfig(k2, s2) >> :
                       k1 \in CameraKeys, k2 \in CameraKeys,
                       s1 \in SinkChoices, s2 \in SinkChoices } :
              c[1].key # c[2].key }

\* the store file does not exist yet
InitSetup ==
    /\ cameras = << >>
    /\ camera_state = << >>
    /\ last = NoOp
    /\ NoService
    /\ NoTrips
    /\ NoLiveView
    /\ NoActor

\* setup_with_paths_and_schema / setup_from_config under config
Setup(config) ==
    LET r == ensure_cameras_initialized(cameras, camera_state, config) IN
    /\ cameras' = r.cameras
    /\ camera_state' = r.camera_state
    /\ last' = [op |-> "setup", b |-> << 0, 0 >>, max |-> 0, arg |-> config,
                pre |-> [cameras |-> cameras, camera_state |-> camera_state],
                post |-> r, ret |-> 0, rep |-> FALSE]
    /\ UNCHANGED << service_vars, trip_vars, actor_vars, dir_entries >>

\* a ring that has a row advances while the service runs
SetupIncrement(b, m) ==
    /\ b \in DOMAIN camera_state
    /\ LET r == increment_segment_index(camera_state[b], m) IN
          /\ r.row.absolute_segments <= MaxAbs
          /\ camera_state' = [camera_state EXCEPT ![b] = r.row]
          /\ last' = Done("increment", b, m, 0, camera_state[b], r.row, r.ret)
    /\ UNCHANGED << cameras, service_vars, trip_vars, actor_vars, dir_entries >>

NextSetup ==
    \/ \E config \in Configs : Setup(config)
    \/ \E b \in Bindings, m \in MaxSegChoices : SetupIncrement(b, m)

SpecSetup == InitSetup /\ [][NextSetup]_vars

(***************************************************************************)
(* SpecEvict: eviction over a recording ring                               *)
(*   the sinks name and write segment files, the worker applies their      *)
(*   SegmentUpdates, trips are opened and closed, and                      *)
(*   mark_fully_evicted_trips is called at any moment.                     *)
(***************************************************************************)
\* the service runs on a fresh store with rings of SEGMENTS_TO_KEEP slots,
\* its sinks seeded with the persisted index
InitEvict ==
    /\ cameras = FreshStore(FullConfig).cameras
    /\ camera_state = FreshStore(FullConfig).camera_state
    /\ last = NoOp
    /\ cfg = [b \in Bindings |-> SEGMENTS_TO_KEEP]
    /\ sink_index = [b \in Bindings |->
                        Some(FreshStore(FullConfig).camera_state[b].segment_index)]
    /\ queue = << >>
    /\ written = 0
    /\ resized = [b \in Bindings |-> NotResized]
    /\ files = NoFiles
    /\ NoTrips
    /\ NoLiveView
    /\ NoActor

\* format-location, and splitmuxsink writing the segment to the path it returned
WriteSegment(b) ==
    /\ written < MaxWritten
    /\ Len(queue) < MaxQueue
    /\ format_location(b)
    /\ files' = [files EXCEPT ![b][Val(sink_index[b])] = Some(NextFileNumber(files, b))]
    /\ written' = written + 1
    /\ UNCHANGED << cameras, camera_state, last, cfg, resized, trip_vars, actor_vars, dir_entries >>

\* no SegmentUpdate of the camera's ring is waiting in the channel
Drained(c) ==
    \A i \in 1 .. Len(queue) :
        ~(queue[i].type = "SegmentUpdate" /\ queue[i].b = << c, PrimarySink >>)

\* new_trip as one committed transaction
NewTripCall(c) ==
    LET row == camera_state[<< c, PrimarySink >>]
        t == [op |-> "new_trip", camera_id |-> c, saved_dir |-> "",
              current |-> row.segment_index, cur_gen |-> row.segment_generation,
              open_id |-> fetch_open_trip(trips, c), before |-> trips]
        w == insert_trip(close_open_trip(trips, t.open_id, t.current, t.cur_gen),
                         c, t.current, t.cur_gen)
    IN  /\ Len(trips) < MaxTrips
        /\ trips' = w
        /\ trip_last' = TripDone(t, "committed", Len(w))
        /\ UNCHANGED << cameras, camera_state, last, service_vars, now, saved_trips, tx, actor_vars, dir_entries >>

\* mark_fully_evicted_trips(camera_id); the clock has moved on since the call before.
\* The record keeps absolute_segments as read (current), the count returned (ret) and
\* whether the call repeats the operation before it: the same call, no counter advance
\* and no trip operation since (rep)
MarkFullyEvicted(c) ==
    LET abs_latest == camera_state[<< c, PrimarySink >>].absolute_segments
        r == mark_fully_evicted_trips(trips, c, abs_latest, now)
    IN  /\ now < MaxClock
        /\ trips' = r.trips
        /\ now' = now + 1
        /\ trip_last' =
               [NoTripOp EXCEPT !.op = "mark_fully_evicted_trips", !.camera_id = c,
                                !.outcome = "committed", !.ret = Some(r.updated),
                                !.current = abs_latest]
               @@ [rep |-> /\ trip_last.op = "mark_fully_evicted_trips"
                           /\ trip_last.camera_id = c
                           /\ trip_last.current = abs_latest]
        /\ UNCHANGED << cameras, camera_state, last, service_vars, saved_trips, tx, actor_vars, dir_entries >>

NextEvict ==
    \/ \E b \in Bindings : WriteSegment(b)
    \/ WorkerStep
    \/ \E c \in Cameras : NewTripCall(c)
    \/ \E c \in Cameras : MarkFullyEvicted(c)

SpecEvict == InitEvict /\ [][NextEvict]_vars

(***************************************************************************)
(* SpecLedger: the trip ledger over every counter operation                *)
(*   increment, update_to and clamp move the ring of SEGMENTS_TO_KEEP      *)
(*   slots; new_trip, save_trip_and_start_new and finalize_open_trip are   *)
(*   called at any moment, each as one committed call.                     *)
(***************************************************************************)
LedgerIncrement(c) ==
    LET b == << c, PrimarySink >>
        r == increment_segment_index(camera_state[b], SEGMENTS_TO_KEEP)
    IN  /\ TotalAbsolute(Bindings) < MaxAbs
        /\ camera_state' = [camera_state EXCEPT ![b] = r.row]
        /\ UNCHANGED << cameras, last, service_vars, trip_vars, actor_vars, dir_entries >>

LedgerUpdateTo(c, n) ==
    LET b == << c, PrimarySink >>
        r == update_segment_counters(camera_state[b], n, SEGMENTS_TO_KEEP)
    IN  /\ TotalAbsolute(Bindings) - camera_state[b].absolute_segments
              + r.absolute_segments <= MaxAbs
        /\ camera_state' = [camera_state EXCEPT ![b] = r]
        /\ UNCHANGED << cameras, last, service_vars, trip_vars, actor_vars, dir_entries >>

LedgerClamp(c) ==
    LET b == << c, PrimarySink >>
        r == clamp_segment_index(camera_state[b], SEGMENTS_TO_KEEP)
    IN  /\ camera_state' = [camera_state EXCEPT ![b] = r]
        /\ UNCHANGED << cameras, last, service_vars, trip_vars, actor_vars, dir_entries >>

\* the record of a ledger call: the call and the open trip it found
LedgerDone(op, c, open_id) ==
    [NoTripOp EXCEPT !.op = op, !.camera_id = c, !.outcome = "committed",
                     !.open_id = open_id]

\* new_trip / save_trip_and_start_new as one committed transaction
LedgerTripCall(op, c, saved_dir) ==
    LET row == camera_state[<< c, PrimarySink >>]
        current == row.segment_index
        cur_gen == row.segment_generation
        open_id == fetch_open_trip(trips, c)
        w == insert_trip(close_open_trip(trips, open_id, current, cur_gen),
                         c, current, cur_gen)
    IN  /\ Len(trips) < MaxLedgerTrips
        /\ trips' = w
        /\ saved_trips' = save_closed_trip(saved_trips, op, trips, open_id, current,
                                           saved_dir)
        /\ trip_last' = LedgerDone(op, c, open_id)
        /\ UNCHANGED << cameras, camera_state, last, service_vars, now, tx, actor_vars, dir_entries >>

\* finalize_open_trip(camera_id, end_segment_inclusive)
FinalizeOpenTrip(c, end_segment_inclusive) ==
    LET cur_gen == camera_state[<< c, PrimarySink >>].segment_generation IN
    /\ trips' = finalize_open_trip(trips, c, end_segment_inclusive, cur_gen)
    /\ trip_last' = LedgerDone("finalize_open_trip", c, fetch_open_trip(trips, c))
    /\ UNCHANGED << cameras, camera_state, last, service_vars, now, saved_trips, tx, actor_vars, dir_entries >>

NextLedger ==
    \/ \E c \in Cameras : LedgerIncrement(c)
    \/ \E c \in Cameras, n \in 0 .. MaxIndexInput : LedgerUpdateTo(c, n)
    \/ \E c \in Cameras : LedgerClamp(c)
    \/ \E c \in Cameras : LedgerTripCall("new_trip", c, "")
    \/ \E c \in Cameras : LedgerTripCall("save_trip_and_start_new", c, "saved/1")
    \/ \E c \in Cameras, e \in 0 .. SEGMENTS_TO_KEEP - 1 : FinalizeOpenTrip(c, e)

SpecLedger == InitTrips /\ [][NextLedger]_vars

(***************************************************************************)
(* SpecClose: the ledger calls that close a trip, over a ring of           *)
(*   SEGMENTS_TO_KEEP slots that the sinks advance past its first wrap.    *)
(***************************************************************************)
\* the sink of camera c reports its next file: one slot further
CloseIncrement(c) ==
    LET b == << c, PrimarySink >>
        r == increment_segment_index(camera_state[b], SEGMENTS_TO_KEEP)
    IN  /\ camera_state[b].absolute_segments < MaxTripAbs
        /\ camera_state' = [camera_state EXCEPT ![b] = r.row]
        /\ UNCHANGED << cameras, last, service_vars, trip_vars, actor_vars, dir_entries >>

\* the worker handles a SegmentUpdate that reports slot n of the ring
CloseUpdateTo(c, n) ==
    LET b == << c, PrimarySink >>
        r == update_segment_counters(camera_state[b], n, SEGMENTS_TO_KEEP)
    IN  /\ n < SEGMENTS_TO_KEEP
        /\ r.absolute_segments <= MaxTripAbs
        /\ camera_state' = [camera_state EXCEPT ![b] = r]
        /\ UNCHANGED << cameras, last, service_vars, trip_vars, actor_vars, dir_entries >>

NextClose ==
    \/ \E c \in Cameras : CloseIncrement(c)
    \/ \E c \in Cameras, n \in 0 .. MaxIndexInput : CloseUpdateTo(c, n)
    \/ \E c \in Cameras : LedgerTripCall("new_trip", c, "")
    \/ \E c \in Cameras : LedgerTripCall("save_trip_and_start_new", c, "saved/1")

SpecClose == InitTrips /\ [][NextClose]_vars

(***************************************************************************)
(* SpecEquiv: insert_trip and finalize_open_trip called one after the      *)
(*   other, next to new_trip, over an advancing ring.                      *)
(***************************************************************************)
\* the table new_trip(camera_id) commits on the table ts
new_trip_table(ts, camera_id, row) ==
    insert_trip(close_open_trip(ts, fetch_open_trip(ts, camera_id),
                                row.segment_index, row.segment_generation),
                camera_id, row.segment_index, row.segment_generation)

\* insert_trip(camera_id, start_segment): start_gen is read from the store
InsertTrip(c, start_segment) ==
    LET row == camera_state[<< c, PrimarySink >>] IN
    /\ Len(trips) < MaxLedgerTrips
    /\ trips' = insert_trip(trips, c, start_segment, row.segment_generation)
    /\ trip_last' = [LedgerDone("insert_trip", c, fetch_open_trip(trips, c))
                        EXCEPT !.current = start_segment]
    /\ UNCHANGED << cameras, camera_state, last, service_vars, now, saved_trips, tx,
                    actor_vars, dir_entries >>

\* finalize_open_trip(camera_id, end_segment_inclusive); called right after
\* insert_trip of the same camera it closes the pair insert_trip, finalize_open_trip
FinalizeAfter(c, end_segment_inclusive) ==
    LET cur_gen == camera_state[<< c, PrimarySink >>].segment_generation
        pair == trip_last.op = "insert_trip" /\ trip_last.camera_id = c
    IN  /\ trips' = finalize_open_trip(trips, c, end_segment_inclusive, cur_gen)
        /\ trip_last' =
               IF pair
               THEN [trip_last EXCEPT !.op = "insert_trip_finalize_open_trip"]
               ELSE LedgerDone("finalize_open_trip", c, fetch_open_trip(trips, c))
        /\ UNCHANGED << cameras, camera_state, last, service_vars, now, saved_trips, tx,
                        actor_vars, dir_entries >>

\* the callers' arguments: a trip starts at the current slot or at slot 0,
\* and ends at the slot before the current one or at the last slot of the ring
StartChoices(c) == {0, camera_state[<< c, PrimarySink >>].segment_index}
EndChoices(c) ==
    {Max(camera_state[<< c, PrimarySink >>].segment_index - 1, 0), SEGMENTS_TO_KEEP - 1}

NextEquiv ==
    \/ \E c \in Cameras : LedgerIncrement(c)
    \/ \E c \in Cameras : \E start \in StartChoices(c) : InsertTrip(c, start)
    \/ \E c \in Cameras : \E e \in EndChoices(c) : FinalizeAfter(c, e)
    \/ \E c \in Cameras : LedgerTripCall("new_trip", c, "")

SpecEquiv == InitTrips /\ [][NextEquiv]_vars

(***************************************************************************)
(* SpecProducer: the first run of the service on a fresh store, for every  *)
(*   ring size of the configuration: the sinks name and write their        *)
(*   segments, the worker applies the SegmentUpdates.                      *)
(***************************************************************************)
InitProducer ==
    /\ cameras = FreshStore(FullConfig).cameras
    /\ camera_state = FreshStore(FullConfig).camera_state
    /\ last = NoOp
    /\ cfg \in [Bindings -> MaxSegChoices]
    /\ sink_index = [b \in Bindings |->
                        Some(FreshStore(FullConfig).camera_state[b].segment_index)]
    /\ queue = << >>
    /\ written = 0
    /\ resized = [b \in Bindings |-> NotResized]
    /\ files = NoFiles
    /\ NoTrips
    /\ NoLiveView
    /\ NoActor

NextProducer ==
    \/ \E b \in Bindings : WriteSegment(b)
    \/ WorkerStep

SpecProducer == InitProducer /\ [][NextProducer]_vars

(***************************************************************************)
(* SpecRestart: the service writes segment files, is shut down once the    *)
(*   worker has handled every message, and starts again, under the same or *)
(*   another configuration.                                                *)
(***************************************************************************)
\* the slot of the newest segment file of a binding
NewestSlot(fs, b) ==
    CHOOSE slot \in DOMAIN fs[b] :
        ~IsNull(fs[b][slot]) /\ Val(fs[b][slot]) = NextFileNumber(fs, b) - 1

\* TsFilePipelineSink::new has returned for the binding
Seeded(b) == ~IsNull(sink_index[b])

\* the sink of a running pipeline starts its next file
SinkWrite(b) ==
    /\ Seeded(b)
    /\ WriteSegment(b)

\* a shutdown after the worker has handled every message, and the next start
DrainedRestart(c) ==
    /\ queue = << >>
    /\ written > 0
    /\ Restart(c)

NextRestart ==
    \/ \E b \in Bindings : SinkWrite(b)
    \/ WorkerStep
    \/ \E c \in [Bindings -> MaxSegChoices] : DrainedRestart(c)

SpecRestart == Init /\ [][NextRestart]_vars

(***************************************************************************)
(* SpecCounters: increment_segment_index and update_segment_counters on a  *)
(*   fresh store, each binding with a ring size that stays the same, the   *)
(*   indices sent inside the ring.                                         *)
(***************************************************************************)
NextCounters ==
    \/ \E b \in Bindings : RingIncrement(b, cfg[b])
    \/ \E b \in Bindings, n \in 0 .. MaxIndexInput :
          n < cfg[b] /\ RingUpdateTo(b, n, cfg[b])

SpecCounters == InitProducer /\ [][NextCounters]_vars

(***************************************************************************)
(* SpecNaming: the format-location callback and the paths it returns, on   *)
(*   rings of RingSize slots and on rings long enough to leave the first   *)
(*   subdirectory.                                                         *)
(***************************************************************************)
\* files per subdirectory: subdir_digits = current_index / 1000
FilesPerSubdir == 1000
\* a ring whose last slot lies in the second subdirectory
BigRing == FilesPerSubdir + 1
NamingRingChoices == {RingSize, BigRing}

\* recording_dir of the pipeline of a camera: recording_root joined with its key
RecordingDir(b) == "recordings/" \o FullConfig[b[1]].key

\* a file name that keeps the slot within its subdirectory
make_filename_closure_local(recording_dir, segment_index) ==
    recording_dir \o "/" \o ToString(segment_index \div FilesPerSubdir)
        \o "/output_" \o ToString(segment_index % FilesPerSubdir) \o ".ts"

\* make_filename_closure: <recording_dir>/<index / 1000>/output_<index>.ts
make_filename_closure(recording_dir, segment_index) ==
    LET current_index == segment_index
        subdir == recording_dir \o "/" \o ToString(current_index \div FilesPerSubdir)
        ts_filename == "output_" \o ToString(current_index) \o ".ts"
    IN  subdir \o "/" \o ts_filename

\* the row of a ring of max_segments slots that has advanced to its last but
\* one slot without a wrap
AdvancedRow(max_segments) ==
    IF max_segments < 2 THEN FreshRow
    ELSE [segment_index |-> max_segments - 2, segment_generation |-> 0,
          absolute_segments |-> max_segments - 2]

\* the service runs, its long rings two files before their first wrap, every
\* sink seeded with the persisted index
InitNaming ==
    /\ cameras = FreshStore(FullConfig).cameras
    /\ cfg \in [Bindings -> NamingRingChoices]
    /\ camera_state = [b \in Bindings |->
                          IF cfg[b] = BigRing THEN AdvancedRow(BigRing) ELSE FreshRow]
    /\ sink_index = [b \in Bindings |-> Some(camera_state[b].segment_index)]
    /\ last = NoOp
    /\ queue = << >>
    /\ written = 0
    /\ resized = [b \in Bindings |-> NotResized]
    /\ files = NoFiles
    /\ NoTrips
    /\ NoLiveView
    /\ NoActor

\* one call of the format-location callback, with the path it returns
NameSegment(b) ==
    /\ written < MaxWritten
    /\ Len(queue) < MaxQueue
    /\ format_location(b)
    /\ last' = Done("format_location", b, cfg[b], Val(sink_index[b]),
                    camera_state[b], camera_state[b], Val(sink_index'[b]))
                @@ [path |-> make_filename_closure(RecordingDir(b), Val(sink_index[b]))]
    /\ written' = written + 1
    /\ UNCHANGED << cameras, camera_state, cfg, resized, files, trip_vars, actor_vars, dir_entries >>

NextNaming ==
    \/ \E b \in Bindings : NameSegment(b)
    \/ WorkerStep

SpecNaming == InitNaming /\ [][NextNaming]_vars

(***************************************************************************)
(* SpecTx: update_segment_counters and increment_segment_index of          *)
(*   src/src/db/db.rs run statement by statement inside their transaction, *)
(*   next to the trip transactions; any statement and the commit may       *)
(*   return Err; camera 2 has no ring sink, hence no camera_state row.     *)
(***************************************************************************)
\* a store set up with a ring sink for camera 1 only
OneRingConfig == << CameraConfig("cam1", {PrimarySink}), CameraConfig("cam2", {}) >>

\* the statements of a counter transaction, in program order
CounterPcs == {"c_read", "c_idx", "c_gen", "c_abs"}
\* the positions of a trip transaction
TripPcs == {"read", "closed", "inserted"}

\* a transaction dropped with its writes still in place
rollback_keeps_work(committed, work) == work

\* Transaction dropped without commit (DropBehavior::Rollback): the table is
\* the committed one
rollback(committed, work) == committed

\* `wrapped` of the running counter transaction t
CounterWrapped(t) ==
    IF t.op = "update_to" THEN t.arg < t.cur.segment_index
    ELSE t.cur.segment_index + 1 >= t.max

\* the values the three UPDATEs of t write
CounterNextIndex(t) ==
    IF t.op = "update_to" THEN t.arg
    ELSE IF CounterWrapped(t) THEN 0 ELSE t.cur.segment_index + 1

CounterDiff(t) ==
    IF t.op = "increment" THEN 1
    ELSE IF CounterWrapped(t) THEN (t.max - t.cur.segment_index) + t.arg
    ELSE t.arg - t.cur.segment_index

\* if new_segment_index == cur_idx { tx.commit()?; return Ok(()) }
CounterNothingToDo(t) == t.op = "update_to" /\ t.arg = t.cur.segment_index

\* the record of a counter call that ended: committed, rolled_back, or no_row
\* (the SELECT found no row for the binding)
CounterDone(op, b, max, arg, pre, post, ret, outcome) ==
    Done(op, b, max, arg, pre, post, ret) @@ [outcome |-> outcome]

InitTx ==
    /\ cameras = FreshStore(OneRingConfig).cameras
    /\ camera_state = FreshStore(OneRingConfig).camera_state
    /\ last = NoOp
    /\ NoService
    /\ NoTrips
    /\ NoLiveView
    /\ NoActor

\* unchecked_transaction and the SELECT of the row; no row: query_row returns
\* Err(QueryReturnedNoRows) and `?` leaves the function
CounterBegin(op, b, arg) ==
    /\ tx.pc = "idle"
    /\ IF b \in DOMAIN camera_state
       THEN /\ camera_state[b].absolute_segments < MaxAbs
            /\ tx' = [pc |-> "c_read", op |-> op, b |-> b, arg |-> arg,
                      max |-> SEGMENTS_TO_KEEP, cur |-> camera_state[b],
                      work |-> camera_state[b]]
            /\ UNCHANGED last
       ELSE /\ last.op # "no_row_" \o op
            /\ last' = CounterDone("no_row_" \o op, b, SEGMENTS_TO_KEEP, arg,
                                   FreshRow, FreshRow, 0, "no_row")
            /\ UNCHANGED tx
    /\ UNCHANGED << cameras, camera_state, service_vars, now, trips, saved_trips,
                    trip_last, actor_vars, dir_entries >>

\* the next UPDATE of the running counter transaction: segment_index, then
\* segment_generation if wrapped, then absolute_segments
CounterExecute ==
    /\ tx.pc \in {"c_read", "c_idx", "c_gen"}
    /\ ~CounterNothingToDo(tx)
    /\ \/ /\ tx.pc = "c_read"
          /\ tx' = [tx EXCEPT !.pc = "c_idx",
                              !.work.segment_index = CounterNextIndex(tx)]
       \/ /\ tx.pc = "c_idx"
          /\ CounterWrapped(tx)
          /\ tx' = [tx EXCEPT !.pc = "c_gen",
                              !.work.segment_generation = tx.cur.segment_generation + 1]
       \/ /\ tx.pc = "c_gen" \/ (tx.pc = "c_idx" /\ ~CounterWrapped(tx))
          /\ tx' = [tx EXCEPT !.pc = "c_abs",
                              !.work.absolute_segments =
                                  tx.cur.absolute_segments + CounterDiff(tx)]
    /\ UNCHANGED << cameras, camera_state, last, service_vars, now, trips, saved_trips,
                    trip_last, actor_vars, dir_entries >>

\* tx.commit() of a counter transaction
CounterCommit ==
    /\ tx.pc = "c_abs" \/ (tx.pc = "c_read" /\ CounterNothingToDo(tx))
    /\ camera_state' = [camera_state EXCEPT ![tx.b] = tx.work]
    /\ last' = CounterDone(tx.op, tx.b, tx.max, tx.arg, tx.cur, tx.work,
                           tx.work.segment_index, "committed")
    /\ tx' = NoTx
    /\ UNCHANGED << cameras, service_vars, now, trips, saved_trips, trip_last, actor_vars, dir_entries >>

\* an UPDATE or the commit of a counter transaction returns Err: `?` drops tx
CounterFail ==
    /\ tx.pc \in CounterPcs
    /\ camera_state' = [camera_state EXCEPT ![tx.b] = rollback(camera_state[tx.b], tx.work)]
    /\ last' = CounterDone(tx.op, tx.b, tx.max, tx.arg, tx.cur, camera_state'[tx.b],
                           0, "rolled_back")
    /\ tx' = NoTx
    /\ UNCHANGED << cameras, service_vars, now, trips, saved_trips, trip_last, actor_vars, dir_entries >>

\* a statement or the commit of a trip transaction returns Err
TripTxFail ==
    /\ tx.pc \in TripPcs
    /\ TxFail

NextTx ==
    \/ \E b \in Bindings, n \in 0 .. SEGMENTS_TO_KEEP - 1 : CounterBegin("update_to", b, n)
    \/ \E b \in Bindings : CounterBegin("increment", b, 0)
    \/ CounterExecute
    \/ CounterCommit
    \/ CounterFail
    \/ \E c \in {b[1] : b \in DOMAIN camera_state} : TxBegin("new_trip", c, "")
    \/ \E c \in {b[1] : b \in DOMAIN camera_state} :
          TxBegin("save_trip_and_start_new", c, "saved/1")
    \/ (tx.pc \in TripPcs /\ TxClose)
    \/ (tx.pc \in TripPcs /\ TxInsert)
    \/ (tx.pc \in TripPcs /\ TxCommit)
    \/ TripTxFail

SpecTx == InitTx /\ [][NextTx]_vars

(***************************************************************************)
(* SpecActor: the DB worker of src/src/db_worker.rs as an actor            *)
(*   senders hold the one Sender of the channel and drop it; pipeline      *)
(*   builders send requests and block on their reply channel; a handler    *)
(*   may meet a storage error; the loop ends when recv() returns Err.      *)
(***************************************************************************)
\* the messages without a reply channel
FireAndForget == {"SegmentUpdate", "ClampSegmentIndex"}
\* the messages that carry reply: Sender<_>
Requests == {"GetSegmentIndex", "GetCameraIdByKey"}

\* a failing lookup answered with -1
segment_index_reply_minus_one(err, row) == IF err THEN 0 - 1 ELSE row.segment_index

\* GetSegmentIndex: Ok(val) => val, Err(e) => 0
segment_index_reply(err, row) == IF err THEN 0 ELSE row.segment_index

\* GetCameraIdByKey: Ok(id) => Some(id), Err(e) => None
camera_id_reply(err, cams, camera_key) ==
    IF err THEN NULL ELSE get_camera_id_by_key(cams, camera_key)

\* what a waiting thread holds after rx.recv() returned Ok: an i64 on the
\* channel of GetSegmentIndex, an Option<i64> on that of GetCameraIdByKey
Received(of, val) == [state |-> "received", of |-> of, val |-> val]

\* a reply channel in one of the states without a value
ReplyState(state) == [state |-> state, of |-> "none", val |-> NULL]

\* let _ = reply.send(v): the value reaches a receiver that waits; with the
\* receiver gone send returns Err, which is ignored, and the value is dropped
reply_send(r, of, val) ==
    IF r.state = "waiting" THEN Received(of, val)
    ELSE IF r.state = "gone" THEN ReplyState("dropped")
    ELSE r

\* a loop that ends as soon as the senders are gone
recv_disconnected_early(q, h) == h = 0

\* recv() returns Err: every Sender is dropped and the channel is empty
recv_disconnected(q, h) == q = << >> /\ h = 0

\* an unwinding that keeps the queued messages and their reply Senders alive
release_replies_leak(rep) == rep

\* the Receiver<DBMessage> is dropped with the messages it holds: every reply
\* Sender in them is dropped, a waiting rx.recv() returns Err
release_replies(rep) ==
    [b \in DOMAIN rep |->
        IF rep[b].state = "waiting" THEN ReplyState("disconnected")
        ELSE IF rep[b].state = "gone" THEN ReplyState("dropped")
        ELSE rep[b]]

\* the record of a handled message: err, the handler met a storage error;
\* after_err, so did the handler of the message before
Handled(op, m, pre, post, ret, err) ==
    Done(op, m.b, m.max_segments, m.segment_index, pre, post, ret)
        @@ [err |-> err, after_err |-> (last.op # "none" /\ last.err)]

InitActor ==
    /\ cameras = FreshStore(FullConfig).cameras
    /\ camera_state = FreshStore(FullConfig).camera_state
    /\ last = NoOp
    /\ NoService
    /\ NoTrips
    /\ NoLiveView
    /\ handles \in 1 .. MaxHandles
    /\ worker = "running"
    /\ reply = [b \in Bindings |-> NoReply]

\* db_sender.send of a message without reply: the format-location callback of a
\* sink that has been built, or a ClampSegmentIndex
ActorSend(b, type) ==
    /\ handles > 0
    /\ worker = "running"
    /\ written < MaxActorMsgs
    /\ Len(queue) < MaxQueue
    /\ \/ /\ type = "SegmentUpdate"
          /\ ~IsNull(sink_index[b])
          /\ format_location(b)
       \/ /\ type = "ClampSegmentIndex"
          /\ queue' = Append(queue, Msg(type, b, 0, cfg[b]))
          /\ UNCHANGED sink_index
    /\ written' = written + 1
    /\ UNCHANGED << cameras, camera_state, last, cfg, resized, files, trip_vars,
                    actor_vars, dir_entries >>

\* get_camera_id_for_camera / TsFilePipelineSink::new: send the request, then
\* block in rx.recv(); with the Receiver<DBMessage> gone send(..)? returns the
\* error and the caller never waits
ActorRequest(b, type) ==
    /\ handles > 0
    /\ written < MaxActorMsgs
    /\ Len(queue) < MaxQueue
    /\ reply[b].state \in {"idle", "received"}
    /\ queue' = IF worker = "running" THEN Append(queue, Msg(type, b, 0, 0)) ELSE queue
    /\ reply' = [reply EXCEPT ![b] =
                    ReplyState(IF worker = "running" THEN "waiting" ELSE "send_failed")]
    /\ written' = written + 1
    /\ UNCHANGED << cameras, camera_state, last, cfg, sink_index, resized, files,
                    trip_vars, handles, worker, dir_entries >>

\* the thread waiting for a reply goes away and its Receiver with it
ReceiverGone(b) ==
    /\ reply[b].state = "waiting"
    /\ reply' = [reply EXCEPT ![b] = ReplyState("gone")]
    /\ UNCHANGED << cameras, camera_state, last, service_vars, trip_vars, handles, worker, dir_entries >>

\* a holder drops its Arc<Sender>; a thread blocked on a reply holds one
DropHandle ==
    /\ handles > 0
    /\ handles > 1 \/ \A b \in Bindings : reply[b].state # "waiting"
    /\ handles' = handles - 1
    /\ UNCHANGED << cameras, camera_state, last, service_vars, trip_vars, worker, reply, dir_entries >>

\* start_db_worker, one iteration of the loop; err: the store call returns Err
ActorStep(err) ==
    /\ worker = "running"
    /\ queue # << >>
    /\ LET m == recv(queue).msg
           row == camera_state[m.b]
       IN  \/ /\ m.type = "SegmentUpdate"
              /\ LET r == IF err THEN row
                          ELSE update_segment_counters(row, m.segment_index, m.max_segments)
                 IN  /\ camera_state' = [camera_state EXCEPT ![m.b] = r]
                     /\ last' = Handled("update_to", m, row, r, 0, err)
              /\ UNCHANGED << sink_index, reply >>
           \/ /\ m.type = "ClampSegmentIndex"
              /\ LET r == IF err THEN row ELSE clamp_segment_index(row, m.max_segments)
                 IN  /\ camera_state' = [camera_state EXCEPT ![m.b] = r]
                     /\ last' = Handled("clamp", m, row, r, 0, err)
              /\ UNCHANGED << sink_index, reply >>
           \/ /\ m.type = "GetSegmentIndex"
              /\ LET v == segment_index_reply(err, row)
                 IN  /\ reply' = [reply EXCEPT ![m.b] = reply_send(reply[m.b], "index", Some(v))]
                     /\ sink_index' = IF reply[m.b].state = "waiting"
                                      THEN [sink_index EXCEPT ![m.b] = Some(v)]
                                      ELSE sink_index
                     /\ last' = Handled("get_index", m, row, row, v, err)
              /\ UNCHANGED camera_state
           \/ /\ m.type = "GetCameraIdByKey"
              /\ LET v == camera_id_reply(err, cameras, FullConfig[m.b[1]].key)
                 IN  /\ reply' = [reply EXCEPT ![m.b] = reply_send(reply[m.b], "camera_id", v)]
                     /\ last' = Handled("get_camera_id", m, row, row,
                                        IF IsNull(v) THEN 0 ELSE Val(v), err)
              /\ UNCHANGED << camera_state, sink_index >>
    /\ queue' = recv(queue).rest
    /\ UNCHANGED << cameras, cfg, written, resized, files, trip_vars, handles, worker, dir_entries >>

\* while let Ok(..) = recv() ends: the thread returns
WorkerExit ==
    /\ worker = "running"
    /\ recv_disconnected(queue, handles)
    /\ worker' = "exited"
    /\ UNCHANGED << cameras, camera_state, last, service_vars, trip_vars, handles, reply, dir_entries >>

\* the worker panics: the closure unwinds and drops dbworker with its Receiver
WorkerPanic ==
    /\ worker = "running"
    /\ worker' = "panicked"
    /\ queue' = << >>
    /\ reply' = release_replies(reply)
    /\ UNCHANGED << cameras, camera_state, last, cfg, sink_index, written, resized,
                    files, trip_vars, handles, dir_entries >>

NextActor ==
    \/ \E b \in Bindings, type \in FireAndForget : ActorSend(b, type)
    \/ \E b \in Bindings, type \in Requests : ActorRequest(b, type)
    \/ \E b \in Bindings : ReceiverGone(b)
    \/ DropHandle
    \/ \E err \in BOOLEAN : ActorStep(err)
    \/ WorkerExit

\* the worker thread is scheduled again and again
ActorFairness ==
    /\ WF_vars(\E err \in BOOLEAN : ActorStep(err))
    /\ WF_vars(WorkerExit)

SpecActor == InitActor /\ [][NextActor]_vars

SpecActorFair == SpecActor /\ ActorFairness

NextPanic ==
    \/ NextActor
    \/ WorkerPanic

SpecPanic == InitActor /\ [][NextPanic]_vars

SpecPanicFair == SpecPanic /\ ActorFairness

(***************************************************************************)
(* SpecNonBlocking: the format-location callbacks of running pipelines     *)
(*   next to a worker that is scheduled or not, meets storage errors, or   *)
(*   has panicked; the channel takes any number of messages.               *)
(***************************************************************************)
\* a sync_channel of MaxQueue slots: send waits while the channel is full
send_ready_bounded(q) == Len(q) < MaxQueue

\* Sender<DBMessage>::send of the asynchronous channel: never waits
send_ready(q) == TRUE

\* Sender::send: the message is queued, or handed back in the Err when the
\* Receiver is gone
send(q, w, m) == IF w = "running" THEN Append(q, m) ELSE q

\* the pipelines run on a fresh store, every sink seeded with the persisted index
InitNonBlocking ==
    /\ cameras = FreshStore(FullConfig).cameras
    /\ camera_state = FreshStore(FullConfig).camera_state
    /\ last = NoOp
    /\ cfg = [b \in Bindings |-> RingSize]
    /\ sink_index = [b \in Bindings |-> Some(camera_state[b].segment_index)]
    /\ queue = << >>
    /\ written = 0
    /\ resized = [b \in Bindings |-> NotResized]
    /\ files = NoFiles
    /\ NoTrips
    /\ NoLiveView
    /\ NoActor

\* the format-location callback from load to return: the store of next_index
\* and `let _ = db_sender.send(..)`
ProducerCall(b) ==
    /\ written < MaxActorMsgs
    /\ send_ready(queue)
    /\ LET current_index == Val(sink_index[b])
           next == next_index(current_index, cfg[b])
       IN  /\ sink_index' = [sink_index EXCEPT ![b] = Some(next)]
           /\ queue' = send(queue, worker, Msg("SegmentUpdate", b, next, cfg[b]))
           /\ last' = Done("format_location", b, cfg[b], current_index,
                           camera_state[b], camera_state[b], Len(queue))
                       @@ [err |-> FALSE, after_err |-> (last.op # "none" /\ last.err)]
    /\ written' = written + 1
    /\ UNCHANGED << cameras, camera_state, cfg, resized, files, trip_vars, actor_vars, dir_entries >>

NextNonBlocking ==
    \/ \E b \in Bindings : ProducerCall(b)
    \/ \E err \in BOOLEAN : ActorStep(err)
    \/ WorkerPanic

SpecNonBlocking == InitNonBlocking /\ [][NextNonBlocking]_vars

\* SpecLocal: the producers of both cameras send while the worker handles
\* their messages, with increment and clamp called on the rows in between
NextLocal ==
    \/ \E b \in Bindings : FormatLocation(b)
    \/ WorkerStep
    \/ \E b \in Bindings : RingIncrement(b, cfg[b])
    \/ \E b \in Bindings, m \in MaxSegChoices : RingClamp(b, m)

SpecLocal == InitNonBlocking /\ [][NextLocal]_vars

(***************************************************************************)
(* SpecCleanup: prep_dir_for_service of src/src/cam_service.rs             *)
(*   A file name is a sequence of pieces: the words the patterns look for, *)
(*   digits, and other text ("x"). An entry of the directory is a file or  *)
(*   a subdirectory with the names of the files in it.                     *)
(***************************************************************************)
Digits == {"0", "1"}

Entry(name, is_file, children) == [name |-> name, is_file |-> is_file, children |-> children]

\* the names the HLS sink writes: livestream.m3u8 and segment%05d.ts
PlaylistName == << "livestream.m3u8" >>
LiveSegmentNames == { << "segment", "0", "1", ".ts" >>, << "segment", "1", "0", ".ts" >> }
\* the names TsFilePipelineSink writes: output_<n>.ts
RingFileNames == { << "output_", "0", ".ts" >>, << "output_", "1", "0", ".ts" >> }

\* what a recording directory may hold when the service starts
CandidateEntries ==
    { Entry(PlaylistName, TRUE, { }),
      Entry(<< "livestream.m3u8", "x" >>, TRUE, { }),
      Entry(<< "segment", ".ts" >>, TRUE, { }),
      Entry(<< "x" >>, TRUE, { }),
      Entry(<< "output_", "1", ".ts" >>, TRUE, { }),
      Entry(<< "segment", "1", ".ts" >>, FALSE, { << "output_", "1", ".ts" >> }),
      Entry(<< "0" >>, FALSE, RingFileNames) }
    \cup { Entry(n, TRUE, { }) : n \in LiveSegmentNames }

\* filename_str.contains("livestream.m3u8")
contains_playlist(name) == \E i \in 1 .. Len(name) : name[i] = "livestream.m3u8"

\* Regex::new(r"segment\d*\.ts") and is_match: the pattern anywhere in the name
segment_regex_is_match(name) ==
    \E i \in 1 .. Len(name) :
        /\ name[i] = "segment"
        /\ \E j \in i + 1 .. Len(name) :
              /\ name[j] = ".ts"
              /\ \A k \in i + 1 .. j - 1 : name[k] \in Digits

\* a cleanup that knows the playlist only
removes_entry_playlist_only(entry) == entry.is_file /\ contains_playlist(entry.name)

\* the condition under which the loop calls fs::remove_file(entry.path())
removes_entry(entry) ==
    /\ entry.is_file
    /\ contains_playlist(entry.name) \/ segment_regex_is_match(entry.name)

\* the files named output_<n>.ts in the directory and its subdirectories
IsRingFileName(name) ==
    /\ Len(name) >= 3
    /\ name[1] = "output_"
    /\ name[Len(name)] = ".ts"
    /\ \A k \in 2 .. Len(name) - 1 : name[k] \in Digits

RingFilesIn(entries) ==
    { << << >>, e.name >> : e \in { x \in entries : x.is_file /\ IsRingFileName(x.name) } }
    \cup UNION { { << e.name, n >> : n \in { c \in e.children : IsRingFileName(c) } }
                 : e \in { x \in entries : ~x.is_file } }

InitCleanup ==
    /\ cameras = FreshStore(FullConfig).cameras
    /\ camera_state = FreshStore(FullConfig).camera_state
    /\ last = NoOp
    /\ NoService
    /\ NoTrips
    /\ NoActor
    /\ dir_entries \in SUBSET CandidateEntries

\* prep_dir_for_service; read_dir yields the entries in any order, and a
\* remove_file (or file_type) that returns Err ends the loop and the start of
\* the service with some of the files removed: `removed` are those files
PrepDirForService(removed, ok) ==
    /\ last.op = "none"
    /\ removed \subseteq { e \in dir_entries : removes_entry(e) }
    /\ ok => removed = { e \in dir_entries : removes_entry(e) }
    /\ ~ok => removed # { e \in dir_entries : removes_entry(e) }
    /\ dir_entries' = dir_entries \ removed
    /\ last' = [NoOp EXCEPT !.op = IF ok THEN "prep_dir" ELSE "prep_dir_failed",
                            !.ret = Cardinality(removed),
                            !.arg = Cardinality(RingFilesIn(dir_entries))]
    /\ UNCHANGED << cameras, camera_state, service_vars, trip_vars, actor_vars >>

NextCleanup ==
    \E removed \in SUBSET CandidateEntries, ok \in BOOLEAN : PrepDirForService(removed, ok)

SpecCleanup == InitCleanup /\ [][NextCleanup]_vars

InRange(i, m) == 0 <= i /\ i < m

(***************************************************************************)
(* Claims on the running service (Spec)                                    *)
(***************************************************************************)
\* the startup clamp of binding b is still in the channel
ClampPending(b) ==
    \E i \in 1 .. Len(queue) : queue[i].type = "ClampSegmentIndex" /\ queue[i].b = b

\* the bounds the data model states between the three counters of a row
GenerationMatches(row, max_segments) ==
    /\ row.absolute_segments >=
          row.segment_generation * max_segments + row.segment_index
    /\ row.absolute_segments <= (row.segment_generation + 1) * max_segments

C5_GenerationMatchesAlways ==
    \A b \in Bindings :
        (~ClampPending(b) /\ ~resized[b].larger) =>
            GenerationMatches(camera_state[b], cfg[b])

\* C5 amended: the generation bounds hold for a binding whose max_segments has
\* been the same since the row was created, after every update_to and clamp,
\* and an increment keeps them.
C5_GenerationMatchesFixedMax ==
    \A b \in Bindings :
        resized[b] = NotResized =>
            /\ GenerationMatches(camera_state[b], cfg[b])
            /\ GenerationMatches(increment_segment_index(camera_state[b], cfg[b]).row,
                                 cfg[b])

\* a ring of fixed size at least two has wrapped
C5_Witness ==
    \E b \in Bindings :
        /\ resized[b] = NotResized
        /\ cfg[b] >= 2
        /\ camera_state[b].segment_generation >= 1
        /\ last.op = "update_to"
        /\ last.b = b

(***************************************************************************)
(* Claims on setup (SpecSetup)                                             *)
(***************************************************************************)
\* C11: after setup on an empty store every configured camera has a row and
\* every (camera, ring sink) binding has counters (0, 0, 0).
C11_SetupOnEmptyStore ==
    (last.op = "setup" /\ last.pre.cameras = << >>) =>
        \A i \in 1 .. Len(last.arg) :
            LET camera_id == get_camera_id_by_key(cameras, last.arg[i].key) IN
            /\ ~IsNull(camera_id)
            /\ \A sink_id \in last.arg[i].sinks :
                   /\ << Val(camera_id), sink_id >> \in DOMAIN camera_state
                   /\ camera_state[<< Val(camera_id), sink_id >>] =
                          [segment_index |-> 0, segment_generation |-> 0,
                           absolute_segments |-> 0]

\* setup created two cameras, each with its ring binding, on an empty store
C11_Witness ==
    /\ last.op = "setup"
    /\ last.pre.cameras = << >>
    /\ Len(last.arg) = 2
    /\ \A i \in 1 .. 2 : last.arg[i].sinks = {PrimarySink}
    /\ Len(cameras) = 2

\* C12: setup on a store that holds state resets nothing: every existing binding
\* keeps the counters last committed and every camera keeps its id.
C12_SetupKeepsState ==
    last.op = "setup" =>
        /\ \A b \in DOMAIN last.pre.camera_state :
               /\ b \in DOMAIN camera_state
               /\ camera_state[b] = last.pre.camera_state[b]
        /\ \A k \in CameraKeys :
               ~IsNull(get_camera_id_by_key(last.pre.cameras, k)) =>
                   get_camera_id_by_key(cameras, k) =
                       get_camera_id_by_key(last.pre.cameras, k)

\* setup ran again over a ring that had advanced, its camera listed second in a
\* configuration that also brings a new camera
C12_Witness ==
    /\ last.op = "setup"
    /\ Len(last.arg) = 2
    /\ Len(last.pre.cameras) = 1
    /\ last.arg[2].key = last.pre.cameras[1]
    /\ last.arg[2].sinks = {PrimarySink}
    /\ << 1, PrimarySink >> \in DOMAIN last.pre.camera_state
    /\ last.pre.camera_state[<< 1, PrimarySink >>].absolute_segments > 0

(***************************************************************************)
(* Claims on the trip ledger (SpecTrips)                                   *)
(***************************************************************************)
TripTransitions == {"new_trip", "save_trip_and_start_new"}

\* C3: in every reachable state, for every camera, at most one row of trips
\* has final_segment = NULL.
C3_AtMostOneOpenTrip ==
    \A c \in Cameras : Cardinality(OpenTripIds(trips, c)) <= 1

\* C4: the close of the previous open trip and the insertion of the new one
\* become visible together: while the call runs and after it failed the committed
\* tables are those from before the call; after it committed the new trip is
\* open and the trip that was open before is closed, never both open.
C4_TripTransitionAtomic ==
    /\ tx.pc # "idle" =>
           trips = tx.before /\ saved_trips = tx.before_saved
    /\ (trip_last.op \in TripTransitions /\ trip_last.outcome = "rolled_back") =>
           trips = trip_last.before /\ saved_trips = trip_last.before_saved
    /\ (trip_last.op \in TripTransitions /\ trip_last.outcome = "committed") =>
           /\ IsNull(trips[trip_last.new_id].final_segment)
           /\ trip_last.open_id # 0 =>
                  ~IsNull(trips[trip_last.open_id].final_segment)

\* the last trip operation is a committed call of op
Committed(op) == trip_last.op = op /\ trip_last.outcome = "committed"

\* the absolute position of ring slot idx in generation gen
AbsPos(gen, idx) == gen * SEGMENTS_TO_KEEP + idx

\* C13: new_trip called at (index c, generation g) closes an open trip of the
\* camera whose start_segment <= c - 1 with final_segment = c - 1 and end_gen = g,
\* and in every case inserts and returns a new open trip with start_segment = c
\* and start_gen = g.
C13_NewTripClosesAndOpens ==
    Committed("new_trip") =>
        /\ \A id \in OpenTripIds(trip_last.before, trip_last.camera_id) :
               trip_last.before[id].start_segment <= trip_last.current - 1 =>
                   /\ trips[id].final_segment = Some(trip_last.current - 1)
                   /\ trips[id].end_gen = Some(trip_last.cur_gen)
        /\ Len(trips) = Len(trip_last.before) + 1
        /\ trips[trip_last.new_id].camera_id = trip_last.camera_id
        /\ IsNull(trips[trip_last.new_id].final_segment)
        /\ trips[trip_last.new_id].start_segment = trip_last.current
        /\ trips[trip_last.new_id].start_gen = trip_last.cur_gen
        /\ Val(trip_last.ret).new_trip.row = trips[trip_last.new_id]

\* C14: an open trip left behind is closed by the next new_trip or
\* save_trip_and_start_new of its camera, wherever the ring has advanced to
\* since the trip started.
C14_OrphanedTripClosed ==
    (/\ trip_last.op \in TripTransitions
     /\ trip_last.outcome = "committed"
     /\ trip_last.open_id # 0) =>
        (AbsPos(trip_last.cur_gen, trip_last.current) >
             AbsPos(trip_last.before[trip_last.open_id].start_gen,
                    trip_last.before[trip_last.open_id].start_segment)
         => ~IsNull(trips[trip_last.open_id].final_segment))

\* rows of saved_trips with this trip_id and saved_dir
SavedRows(saved, trip_id, saved_dir) ==
    { i \in 1 .. Len(saved) :
        saved[i].trip_id = trip_id /\ saved[i].saved_dir = saved_dir }

\* C15: when save_trip_and_start_new returns closed_id # 0, the trip closed_id is
\* closed with final_segment = closed_end, closed_end >= closed_start, and
\* saved_trips holds exactly one row with trip_id = closed_id and the saved_dir.
C15_SaveTripReturn ==
    (Committed("save_trip_and_start_new") /\ Val(trip_last.ret).closed_id # 0) =>
        LET ret == Val(trip_last.ret) IN
        /\ trips[ret.closed_id].final_segment = Some(ret.closed_end)
        /\ ret.closed_end >= ret.closed_start
        /\ Cardinality(SavedRows(saved_trips, ret.closed_id, trip_last.saved_dir)) = 1

\* C16: save_trip_and_start_new returns closed_id = 0 exactly when the camera had
\* no open trip; then no trip is modified, no saved_trips row is inserted, and a
\* new open trip is created.
C16_SaveTripNoOpenTrip ==
    Committed("save_trip_and_start_new") =>
        /\ Val(trip_last.ret).closed_id = 0
               <=> OpenTripIds(trip_last.before, trip_last.camera_id) = {}
        /\ Val(trip_last.ret).closed_id = 0 =>
               /\ SubSeq(trips, 1, Len(trip_last.before)) = trip_last.before
               /\ saved_trips = trip_last.before_saved
               /\ Len(trips) = Len(trip_last.before) + 1
               /\ trips[Len(trips)] =
                      Trip(trip_last.camera_id, trip_last.current, trip_last.cur_gen)

\* save_trip_and_start_new committed for a camera with no open trip while
\* another camera had one
C16_Witness ==
    /\ Committed("save_trip_and_start_new")
    /\ Val(trip_last.ret).closed_id = 0
    /\ trip_last.before # << >>
    /\ trip_last.current > 0

(***************************************************************************)
(* Claims on SpecLedger                                                    *)
(***************************************************************************)
\* C21: in every state, every trip whose final_segment is set also has
\* end_time_utc, end_gen and end_clock_source set, whichever of
\* finalize_open_trip, new_trip and save_trip_and_start_new closed it.
C21_ClosedTripHasEndFields ==
    \A id \in 1 .. Len(trips) :
        ~IsNull(trips[id].final_segment) =>
            /\ ~IsNull(trips[id].end_time_utc)
            /\ ~IsNull(trips[id].end_gen)
            /\ ~IsNull(trips[id].end_clock_source)

\* finalize_open_trip has closed a trip after save_trip_and_start_new closed one
C21_Witness ==
    /\ trip_last.op = "finalize_open_trip"
    /\ trip_last.open_id # 0
    /\ ~IsNull(trips[trip_last.open_id].final_segment)
    /\ saved_trips # << >>
    /\ Cardinality({ id \in 1 .. Len(trips) : ~IsNull(trips[id].final_segment) }) >= 2

C23_AbsoluteCountsSegments ==
    \A b \in Bindings :
        Drained(b[1]) => camera_state[b].absolute_segments = NextFileNumber(files, b)

MarkCall(c) == now' = now + 1 /\ trip_last'.camera_id = c

\* the id-th trip satisfies the eviction rule for camera c: it is a closed,
\* unstamped trip of c whose absolute end lies before the earliest on-disk index
EvictionRule(id, c) ==
    LET t == trips[id]
        max_segments == cfg[<< c, PrimarySink >>]
        absolute_segments == camera_state[<< c, PrimarySink >>].absolute_segments
    IN  /\ t.camera_id = c
        /\ ~IsNull(t.final_segment)
        /\ ~t.fully_evicted
        /\ (IF IsNull(t.end_gen) THEN t.start_gen ELSE Val(t.end_gen)) * max_segments
               + Val(t.final_segment)
             < Max(0, absolute_segments - (max_segments - 1))

\* C17: a call of mark_fully_evicted_trips(camera) stamps exactly the trips of
\* that camera that are closed, not yet stamped and satisfy the eviction rule at
\* the moment of the call; it stamps no open trip and no trip of another camera,
\* changes nothing else in the table, and returns the number of trips it stamped.
C17_MarkStampsExactlyTheRule ==
    [][\A c \in Cameras :
          MarkCall(c) =>
              /\ Len(trips') = Len(trips)
              /\ \A id \in 1 .. Len(trips) :
                     /\ (trips'[id].fully_evicted /\ ~trips[id].fully_evicted)
                            <=> EvictionRule(id, c)
                     /\ EvictionRule(id, c) => trips'[id].evicted_at_utc = Some(now)
                     /\ [trips'[id] EXCEPT !.fully_evicted = FALSE, !.evicted_at_utc = NULL]
                          = [trips[id] EXCEPT !.fully_evicted = FALSE,
                                              !.evicted_at_utc = NULL]
                     /\ (IsNull(trips[id].final_segment) \/ trips[id].camera_id # c)
                            => trips'[id] = trips[id]
              /\ trip_last'.ret
                   = Some(Cardinality({ id \in 1 .. Len(trips) :
                                          trips'[id].fully_evicted
                                          /\ ~trips[id].fully_evicted }))]_vars

\* a call has stamped a trip while the camera had an open trip and another camera
\* had an unstamped trip
C17_Witness ==
    /\ trip_last.op = "mark_fully_evicted_trips"
    /\ Val(trip_last.ret) >= 1
    /\ \E id \in 1 .. Len(trips) :
           /\ trips[id].camera_id = trip_last.camera_id
           /\ trips[id].fully_evicted
    /\ fetch_open_trip(trips, trip_last.camera_id) # 0
    /\ \E id \in 1 .. Len(trips) :
           /\ trips[id].camera_id # trip_last.camera_id
           /\ ~trips[id].fully_evicted

\* C18: mark_fully_evicted_trips is idempotent: whatever is interleaved, a
\* stamped trip stays stamped and its evicted_at_utc is never rewritten, and a
\* call that immediately repeats a call returns 0 and changes nothing.
C18_MarkIdempotent ==
    [][/\ \A id \in 1 .. Len(trips) :
             trips[id].fully_evicted =>
                 /\ id <= Len(trips')
                 /\ trips'[id].fully_evicted
                 /\ trips'[id].evicted_at_utc = trips[id].evicted_at_utc
       /\ \A c \in Cameras :
             (MarkCall(c) /\ trip_last'.rep) =>
                 /\ trip_last'.ret = Some(0)
                 /\ trips' = trips
                 /\ saved_trips' = saved_trips
                 /\ camera_state' = camera_state]_vars

\* a call has immediately repeated a call that stamped a trip
C18_Witness ==
    /\ trip_last.op = "mark_fully_evicted_trips"
    /\ trip_last.rep
    /\ trip_last.ret = Some(0)
    /\ \E id \in 1 .. Len(trips) :
           /\ trips[id].camera_id = trip_last.camera_id
           /\ trips[id].evicted_at_utc = Some(now - 2)

TripExtent(id) ==
    AbsPos(trips[id].start_gen, trips[id].start_segment)
        .. AbsPos(Val(trips[id].end_gen), Val(trips[id].final_segment))

\* C20: eviction agrees with the disk: when every SegmentUpdate of the camera
\* has been applied, a call of mark_fully_evicted_trips stamps a trip only if
\* none of the segment files of its extent still exists in the ring.
C20_EvictionAgreesWithDisk ==
    [][\A c \in Cameras :
          (MarkCall(c) /\ Drained(c)) =>
              \A id \in 1 .. Len(trips) :
                  (trips'[id].fully_evicted /\ ~trips[id].fully_evicted) =>
                      TripExtent(id) \cap FilesOnDisk(files, << c, PrimarySink >>) = {}]_vars

(***************************************************************************)
(* Claims on the counter API (SpecRing)                                    *)
(***************************************************************************)
\* C6: increment on (idx, gen, abs) commits (idx+1, gen, abs+1) when
\* idx+1 < max_segments and (0, gen+1, abs+1) otherwise, and returns the new index.
C6_IncrementStep ==
    last.op = "increment" =>
        /\ camera_state[last.b] = last.post
        /\ last.post.absolute_segments = last.pre.absolute_segments + 1
        /\ IF last.pre.segment_index + 1 < last.max
           THEN /\ last.post.segment_index = last.pre.segment_index + 1
                /\ last.post.segment_generation = last.pre.segment_generation
           ELSE /\ last.post.segment_index = 0
                /\ last.post.segment_generation = last.pre.segment_generation + 1
        /\ last.ret = last.post.segment_index

\* an increment wrapped a ring of at least two slots at its last slot
C6_Witness ==
    /\ last.op = "increment"
    /\ last.max >= 2
    /\ last.pre.segment_index + 1 = last.max
    /\ last.post.segment_index = 0

\* C7: update_to(new_index) with both indices in [0, max_segments) and
\* new_index # cur_idx commits index = new_index, absolute + ((new - cur) mod max),
\* and generation + 1 exactly when new_index < cur_idx.
C7_UpdateToStep ==
    (/\ last.op = "update_to"
     /\ InRange(last.arg, last.max)
     /\ InRange(last.pre.segment_index, last.max)
     /\ last.arg # last.pre.segment_index) =>
        /\ camera_state[last.b] = last.post
        /\ last.post.segment_index = last.arg
        /\ last.post.absolute_segments =
              last.pre.absolute_segments
              + ((last.arg - last.pre.segment_index) % last.max)
        /\ last.post.segment_generation =
              IF last.arg < last.pre.segment_index
              THEN last.pre.segment_generation + 1
              ELSE last.pre.segment_generation

\* an in-range update_to wrapped the ring and advanced by more than one segment
C7_Witness ==
    /\ last.op = "update_to"
    /\ InRange(last.arg, last.max)
    /\ InRange(last.pre.segment_index, last.max)
    /\ last.arg < last.pre.segment_index
    /\ last.post.absolute_segments >= last.pre.absolute_segments + 2
    /\ last.post.segment_generation = last.pre.segment_generation + 1

\* C8: update_to with new_index equal to the persisted index leaves the three
\* counters unchanged, so the same update sent twice has the effect of one.
C8_UpdateToSameIndex ==
    last.op = "update_to" =>
        /\ (last.arg = last.pre.segment_index => last.post = last.pre)
        /\ (last.rep => last.post = last.pre)
        /\ camera_state[last.b] = last.post

\* the same update_to was applied twice in a row to a ring that had advanced
C8_Witness ==
    /\ last.op = "update_to"
    /\ last.rep
    /\ last.arg = last.pre.segment_index
    /\ last.pre.absolute_segments > 0

\* C9: clamp sets segment_index to its previous value modulo max_segments and
\* leaves segment_generation and absolute_segments unchanged.
C9_ClampStep ==
    last.op = "clamp" =>
        /\ camera_state[last.b] = last.post
        /\ last.post.segment_index = last.pre.segment_index % last.max
        /\ last.post.segment_generation = last.pre.segment_generation
        /\ last.post.absolute_segments = last.pre.absolute_segments

\* a clamp reduced an index at or past the ring size, on a ring that had advanced
C9_Witness ==
    /\ last.op = "clamp"
    /\ last.pre.segment_index >= last.max
    /\ last.max >= 2
    /\ last.pre.absolute_segments > 0

\* C10: clamp is idempotent: a second clamp with the same max_segments
\* changes nothing.
C10_ClampIdempotent ==
    /\ (last.op = "clamp" /\ last.rep) => last.post = last.pre
    /\ last.op = "clamp" =>
          clamp_segment_index(camera_state[last.b], last.max) = camera_state[last.b]

\* a clamp that changed the index has been followed by the same clamp
C10_Witness ==
    /\ last.op = "clamp"
    /\ last.rep
    /\ last.post.segment_index < last.max
    /\ last.max >= 2
    /\ last.post.absolute_segments > last.post.segment_generation * last.max
                                      + last.post.segment_index

\* C25: once every handle of the Sender is dropped the worker eventually
\* terminates; it terminates only with every handle dropped and every message
\* sent before that handled (the channel empty), and a message leaves the
\* channel only at its head, taken by the running worker.
C25_TerminatesWhenHandlesDropped ==
    /\ (handles = 0) ~> (worker = "exited")
    /\ [](worker = "exited" => handles = 0 /\ queue = << >>)
    /\ [][Len(queue') < Len(queue) => worker = "running" /\ queue' = Tail(queue)]_vars

C25_Witness ==
    /\ worker = "exited"
    /\ handles = 0
    /\ last.op = "update_to"
    /\ ~last.err
    /\ last.post.absolute_segments > 0

\* C26: a handler that meets a storage error leaves the counters alone, answers
\* GetSegmentIndex with 0 and GetCameraIdByKey with None, and the worker keeps
\* running; every message handled without an error, also one that follows a
\* failed one, has its normal effect.
C26_StorageErrorDoesNotStopActor ==
    [][(queue # << >> /\ queue' = Tail(queue)) =>
        LET m == Head(queue)
            row == camera_state[m.b]
            waiting == reply[m.b].state = "waiting"
        IN  /\ worker' = "running"
            /\ last'.err =>
                 /\ camera_state' = camera_state
                 /\ m.type \in FireAndForget => reply' = reply
                 /\ (m.type = "GetSegmentIndex" /\ waiting) =>
                        reply'[m.b] = Received("index", Some(0))
                 /\ (m.type = "GetCameraIdByKey" /\ waiting) =>
                        reply'[m.b] = Received("camera_id", NULL)
            /\ ~last'.err =>
                 /\ m.type = "SegmentUpdate" =>
                        camera_state'[m.b] =
                            update_segment_counters(row, m.segment_index, m.max_segments)
                 /\ m.type = "ClampSegmentIndex" =>
                        camera_state'[m.b] = clamp_segment_index(row, m.max_segments)
                 /\ (m.type = "GetSegmentIndex" /\ waiting) =>
                        reply'[m.b] = Received("index", Some(row.segment_index))
                 /\ (m.type = "GetCameraIdByKey" /\ waiting) =>
                        reply'[m.b] = Received("camera_id", Some(m.b[1]))]_vars

C26_Witness ==
    /\ last.op = "update_to"
    /\ ~last.err
    /\ last.after_err
    /\ last.post # last.pre
    /\ worker = "running"
    /\ \E b \in Bindings : reply[b] = Received("camera_id", NULL)

\* C27: a thread waiting for a reply does not wait forever: it receives a
\* value or a disconnection, also when the worker exits or panics with the
\* request unhandled; a reply whose receiver is gone is dropped, and the worker
\* that dropped it goes on.
C27_NoCallerBlocksForever ==
    /\ \A b \in Bindings :
          (reply[b].state = "waiting") ~> (reply[b].state # "waiting")
    /\ [][\A b \in Bindings :
            /\ (reply[b].state = "waiting" /\ reply'[b].state # "waiting") =>
                   reply'[b].state \in {"received", "disconnected", "gone"}
            /\ (reply[b].state = "gone" /\ reply'[b] # reply[b]) =>
                   /\ reply'[b] = ReplyState("dropped")
                   /\ worker' = "panicked" \/ (worker' = "running" /\ queue' = Tail(queue))]_vars

C27_Witness ==
    /\ worker = "panicked"
    /\ \E b \in Bindings : reply[b].state = "disconnected"
    /\ \E b \in Bindings : reply[b].state = "dropped"
    /\ last.op = "get_index"

\* C28: a counter or trip operation that fails part-way leaves the store as it
\* was before the call: the committed tables change only at a commit, a counter
\* commit installs index, generation and absolute count of the whole operation
\* together, and an update for a binding without a camera_state row changes
\* nothing.
C28_FailedOperationChangesNothing ==
    [][/\ camera_state' # camera_state =>
            /\ tx.pc \in CounterPcs
            /\ last'.outcome = "committed"
            /\ camera_state' = [camera_state EXCEPT ![tx.b] =
                   IF tx.op = "update_to"
                   THEN update_segment_counters(tx.cur, tx.arg, tx.max)
                   ELSE increment_segment_index(tx.cur, tx.max).row]
       /\ (trips' # trips \/ saved_trips' # saved_trips) =>
            /\ tx.pc = "inserted"
            /\ trip_last'.outcome = "committed"
       /\ (tx.pc \in CounterPcs /\ tx'.pc = "idle" /\ last'.outcome = "rolled_back") =>
            /\ camera_state' = camera_state
            /\ camera_state'[tx.b] = tx.cur
            /\ trips' = trips /\ saved_trips' = saved_trips
       /\ (tx.pc \in TripPcs /\ tx'.pc = "idle" /\ trip_last'.outcome = "rolled_back") =>
            /\ trips' = tx.before /\ saved_trips' = tx.before_saved
            /\ camera_state' = camera_state
       /\ (last' # last /\ last'.op \in {"no_row_update_to", "no_row_increment"}) =>
            /\ last'.b \notin DOMAIN camera_state
            /\ camera_state' = camera_state
            /\ trips' = trips /\ saved_trips' = saved_trips]_vars

C28_Witness ==
    /\ last.op = "update_to"
    /\ last.outcome = "rolled_back"
    /\ last.arg < last.pre.segment_index
    /\ last.post = last.pre
    /\ trip_last.op = "save_trip_and_start_new"
    /\ trip_last.outcome = "rolled_back"
    /\ trip_last.open_id # 0
    /\ tx.pc = "idle"

SameRingSize(b) == ~resized[b].smaller /\ ~resized[b].larger

C31_FormatLocationNeverWaits ==
    /\ [](\A b \in Bindings : written < MaxActorMsgs => ENABLED ProducerCall(b))
    /\ [][written' = written + 1 =>
            /\ worker' = worker
            /\ camera_state' = camera_state
            /\ \E b \in Bindings :
                  sink_index' = [sink_index EXCEPT
                                    ![b] = Some(next_index(Val(sink_index[b]), cfg[b]))]]_vars

C31_Witness ==
    /\ last.op = "format_location"
    /\ last.ret >= MaxQueue
    /\ Len(queue) > MaxQueue
    /\ worker = "running"

\* C32: after a service start whose cleanup succeeded no file of the
\* recording directory is a livestream playlist or a live-view segment
\* (segment<digits>.ts); the cleanup, successful or not, removes files of the
\* directory only and every output_<n>.ts file from before is still there.
C32_CleanupKeepsRingFiles ==
    /\ [](last.op = "prep_dir" =>
            \A e \in dir_entries :
                e.is_file => (e.name # PlaylistName /\ e.name \notin LiveSegmentNames))
    /\ [][dir_entries' # dir_entries =>
            /\ dir_entries' \subseteq dir_entries
            /\ RingFilesIn(dir_entries') = RingFilesIn(dir_entries)
            /\ \A e \in dir_entries \ dir_entries' : e.is_file]_vars

C32_Witness ==
    /\ last.op = "prep_dir"
    /\ last.ret >= 3
    /\ last.arg = 4
    /\ Cardinality(RingFilesIn(dir_entries)) = 4

\* C33: an increment, update_to or clamp called with max_segments < 1 is
\* rejected: it leaves the counters of the binding as they were.
C33_BadMaxSegmentsRejected ==
    (last.op \in {"increment", "update_to", "clamp"} /\ last.max < 1) =>
        last.post = last.pre

\* C34: from a fresh store, under increment and update_to with indices inside
\* the ring and a max_segments that stays the same,
\* absolute_segments = segment_generation * max_segments + segment_index.
C34_AbsoluteIsGenerationTimesMaxPlusIndex ==
    \A b \in Bindings :
        camera_state[b].absolute_segments =
            camera_state[b].segment_generation * cfg[b] + camera_state[b].segment_index

C34_Witness ==
    /\ last.op = "update_to"
    /\ last.arg < last.pre.segment_index
    /\ last.post.segment_generation = 1
    /\ \E b \in Bindings : b # last.b /\ camera_state[b].segment_generation = 1
                           /\ cfg[b] = 1

\* the ids a sequence of ids lists
Listed(ids) == { ids[i] : i \in 1 .. Len(ids) }

\* C35: is_trip_fully_evicted is false for an open trip, true for a stamped
\* trip, and otherwise true exactly when the trip's absolute end is below
\* max(0, absolute_segments - (max_segments - 1)); right after
\* mark_fully_evicted_trips(camera) it is true for exactly the stamped trips of
\* the camera, and list_active_trips(camera) lists the other trips of the
\* camera and none of the stamped ones.
C35_IsTripFullyEvicted ==
    /\ [](\A id \in 1 .. Len(trips) :
            LET t == trips[id]
                b == << t.camera_id, PrimarySink >>
                absolute_segments == camera_state[b].absolute_segments
                answer == is_trip_fully_evicted(trips, id, absolute_segments)
            IN  /\ IsNull(t.final_segment) => ~answer
                /\ t.fully_evicted => answer
                /\ (~IsNull(t.final_segment) /\ ~t.fully_evicted) =>
                       (answer <=>
                          (IF IsNull(t.end_gen) THEN t.start_gen ELSE Val(t.end_gen)) * cfg[b]
                              + Val(t.final_segment)
                            < Max(0, absolute_segments - (cfg[b] - 1))))
    /\ [][\A c \in Cameras :
            MarkCall(c) =>
                /\ \A id \in 1 .. Len(trips') :
                      trips'[id].camera_id = c =>
                          /\ is_trip_fully_evicted(trips', id,
                                 camera_state'[<< c, PrimarySink >>].absolute_segments)
                               <=> trips'[id].fully_evicted
                          /\ trips'[id].fully_evicted <=>
                                 id \notin Listed(list_active_trips(trips', c))
                /\ \A id \in Listed(list_active_trips(trips', c)) :
                      trips'[id].camera_id = c]_vars

C35_Witness ==
    /\ trip_last.op = "mark_fully_evicted_trips"
    /\ Val(trip_last.ret) >= 1
    /\ Len(list_active_trips(trips, trip_last.camera_id)) >= 2
    /\ \E id \in 1 .. Len(trips) :
          /\ trips[id].camera_id = trip_last.camera_id
          /\ ~IsNull(trips[id].final_segment)
          /\ ~is_trip_fully_evicted(trips, id,
                 camera_state[<< trip_last.camera_id, PrimarySink >>].absolute_segments)

\* what an observer of the ledger sees of a table: the trips with their camera
\* and start, and which of them are open
TripView(ts) ==
    [id \in 1 .. Len(ts) |->
        [camera_id |-> ts[id].camera_id, start_segment |-> ts[id].start_segment,
         start_gen |-> ts[id].start_gen, open |-> IsNull(ts[id].final_segment)]]

\* C36: insert_trip(camera, s) followed by finalize_open_trip(camera, e)
\* leaves the same trips, open and closed alike, as a single new_trip(camera)
\* called in its place on the table insert_trip found (s being the index
\* new_trip starts its trip at).
C36_InsertThenFinalizeIsNewTrip ==
    [][(/\ trip_last.op = "insert_trip"
        /\ trip_last'.op = "insert_trip_finalize_open_trip"
        /\ trip_last.current =
               camera_state[<< trip_last.camera_id, PrimarySink >>].segment_index)
          => TripView(trips') =
                TripView(new_trip_table(SubSeq(trips, 1, Len(trips) - 1),
                                        trip_last.camera_id,
                                        camera_state[<< trip_last.camera_id,
                                                        PrimarySink >>]))]_vars

\* C37: from a row whose index is inside the ring, increment commits the
\* triple that update_to commits when given (index + 1) mod max_segments,
\* for every max_segments >= 1.
C37_IncrementIsUpdateToNext ==
    (/\ last.op = "increment"
     /\ last.max >= 1
     /\ InRange(last.pre.segment_index, last.max))
        => last.post = update_segment_counters(last.pre,
                                               (last.pre.segment_index + 1) % last.max,
                                               last.max)

\* the SegmentUpdate messages of binding b the worker has not handled yet,
\* oldest first
QueuedUpdates(b) ==
    LET Mine(m) == m.type = "SegmentUpdate" /\ m.b = b IN SelectSeq(queue, Mine)

\* C38: for a binding whose sink is built, with no SegmentUpdate of the
\* binding queued the persisted segment_index equals the sink's in-memory
\* counter; with some queued it equals the value the counter had before the
\* oldest queued call, each queued message carries the counter's next value,
\* and the newest carries the counter itself: the store lags, it never leads.
C38_PersistedIndexLagsCounter ==
    \A b \in Bindings :
        Seeded(b) =>
            LET ms == QueuedUpdates(b)
                persisted == camera_state[b].segment_index
            IN  IF ms = << >>
                THEN persisted = Val(sink_index[b])
                ELSE /\ ms[1].segment_index = next_index(persisted, cfg[b])
                     /\ \A k \in 2 .. Len(ms) :
                           ms[k].segment_index =
                               next_index(ms[k - 1].segment_index, cfg[b])
                     /\ ms[Len(ms)].segment_index = Val(sink_index[b])

C38_Witness ==
    \E b \in Bindings :
        /\ Seeded(b)
        /\ Len(QueuedUpdates(b)) = 2
        /\ camera_state[b].segment_index # Val(sink_index[b])
        /\ camera_state[b].absolute_segments > 0

CounterOps == {"increment", "update_to", "clamp"}

\* C39: a step changes the three counters of a binding only if it is an
\* increment, update_to or clamp of that binding: every counter operation
\* leaves the rows of the other bindings as they were, however the
\* SegmentUpdate messages of the cameras' producers interleave.
C39_CounterOpsAreLocal ==
    [][\A b \in Bindings :
          camera_state'[b] # camera_state[b]
              => (last'.op \in CounterOps /\ last'.b = b)]_vars

C39_Witness ==
    /\ last.op = "update_to"
    /\ last.post # last.pre
    /\ \E m \in Bindings :
          /\ m # last.b
          /\ QueuedUpdates(m) # << >>
          /\ camera_state[m].absolute_segments > 0
          /\ camera_state[m] # camera_state[last.b]

\* the ledger calls that close a trip and open the next
TripOps == {"new_trip", "save_trip_and_start_new"}

=============================================================================
